---- MODULE Spec2Model ----
(***************************************************************************)
(* Weaves background service worker: the connection registry (daily        *)
(* content store + connection list), the pinning ledger, their persistence *)
(* in chrome.storage.local, the daily reset, the language model session    *)
(* and the message handlers; and the content script's extractAndSend.      *)
(*                                                                         *)
(* JavaScript runs one handler at a time and switches only at an `await`.  *)
(* Every action below is the synchronous run of one handler between two    *)
(* suspension points.  chrome.storage.local serves its requests in the     *)
(* order they are issued, so a get reads and a set writes at the moment    *)
(* of the call; the caller resumes in a later step.                        *)
(*                                                                         *)
(* Times are in model units; strengths are in hundredths (0.85 is 85).     *)
(***************************************************************************)
EXTENDS Integers, Sequences, FiniteSets, TLC

\* ------------------------------------------------------------- bounds
MaxTime == 3          \* the clock runs over 1..MaxTime
DayLen == 2           \* time units per calendar day
MaxPinned == 1        \* the configured settings.maxPinnedConnections
MaxIngest == 3        \* CONTENT_UPDATE messages accepted in one behaviour
MaxCommands == 2      \* other messages accepted in one behaviour
MaxRestarts == 1      \* service-worker restarts in one behaviour
MaxLines == 1         \* CONNECT: lines in one response of the language model
MaxResponse == 3      \* the same, when only pages are ingested (SpecIngest)

\* ------------------------------------------------------------- constants
ComparisonSetSize == 12    \* .slice(0, 12) of existingContents
PromptCap == 4             \* .slice(0, 4) of existingAnalyses
MinStrength == 70          \* strength >= 0.7
MaxStrength == 100         \* strength <= 1.0
MinReasonLength == 50      \* reason.length > 50
HighQualityStrength == 75  \* c.strength >= 0.75
RecentContentLimit == 25   \* .slice(0, 25) of GET_CONNECTIONS
ConnectionsLimit == 50     \* .slice(0, 50) of GET_CONNECTIONS
PurgeDays == 7             \* Date.now() - (7 * 24 * 60 * 60 * 1000)
DataRetentionDays == 7     \* dataRetentionDays: 7

\* ------------------------------------------------------------- inputs
\* The pages that send CONTENT_UPDATE: sender.tab.id, message.title and
\* sender.tab.url.
Pages == {[tab |-> 1, title |-> "A", url |-> "a"]}
\* A reason is its length and the shallow phrase its lower-cased text includes.
DeepReason == [length |-> 60, includes |-> "none"]
ShallowReason == [length |-> 20, includes |-> "both discuss"]
ShallowPhrases == {"both mention", "both discuss", "both are about"}
Indexes == 0..(MaxIngest - 1)
\* The CONNECT: lines the language model may answer with.
Lines ==
  [index : Indexes \ {MaxIngest - 1}, strength : {70, 85}, reason : {DeepReason}]
    \cup {[index |-> 0, strength |-> 50, reason |-> DeepReason],
          [index |-> 0, strength |-> 85, reason |-> ShallowReason],
          [index |-> MaxIngest - 1, strength |-> 85, reason |-> DeepReason]}
UnknownId == "0-0-0"
\* Ingestion alone (SpecIngest): a page with a title and one without
\* (document.title || ''), and responses that break one rule of the
\* validation at a time.
IngestPages == {[tab |-> 1, title |-> "A", url |-> "a"],
                [tab |-> 2, title |-> "", url |-> "b"]}
ShortReason == [length |-> 50, includes |-> "none"]
BannedReason == [length |-> 60, includes |-> "both discuss"]
\* The content script (SpecExtract): the text extractContent finds in the
\* page, as its length and its words; NoContent is the ''.
NoContent == [length |-> 0, words |-> {}]
Contents ==
  {[length |-> 120, words |-> {"A", "b", "c", "d"}],
   [length |-> 130, words |-> {"a", "b", "c", "d", "e"}],
   [length |-> 140, words |-> {"a", "b", "c", "d", "e", "f"}],
   [length |-> 99, words |-> {"x"}]}
MinContentLength == 100    \* extracted.content.length < 100
SimilarityThreshold == 80  \* contentSimilarity(...) < 0.8, in hundredths
ResponseLines ==
  {[index |-> 0, strength |-> 70, reason |-> DeepReason],
   [index |-> 0, strength |-> 100, reason |-> DeepReason],
   [index |-> 0, strength |-> 69, reason |-> DeepReason],
   [index |-> 0, strength |-> 101, reason |-> DeepReason],
   [index |-> 0, strength |-> 90, reason |-> ShortReason],
   [index |-> 0, strength |-> 90, reason |-> BannedReason],
   [index |-> 1, strength |-> 85, reason |-> DeepReason]}

VARIABLES
  now,                \* Date.now()
  settings,           \* WeavesStorageManager.settings
  pinnedConnections,  \* WeavesStorageManager.pinnedConnections (a Map)
  contentStore,       \* WeavesAI.contentStore (a Map)
  connections,        \* WeavesAI.connections (an array)
  storage,            \* chrome.storage.local
  inflight,           \* the onMessage listener invocations that are suspended
  done,               \* the listener invocation that returned in the last step
  tasks,              \* initializeStorage(), WeavesAI.loadStoredData(), the
                      \* checkAndPerformDailyReset() started by the timer, and
                      \* initializeAI()
  resetDue,           \* the time scheduleNextResetCheck armed its timer for
  budget,             \* messages and restarts still allowed by the bounds, and
                      \* the environment: the browser's language model
  lastContent         \* WeavesContentExtractor.lastContent of the page's tab

vars == <<now, settings, pinnedConnections, contentStore, connections, storage,
          inflight, done, tasks, resetDue, budget, lastContent>>

None == <<>>
Some(x) == <<x>>

\* ------------------------------------------------------------- Map
\* A JavaScript Map: a sequence of <<key, value>> with distinct keys, in
\* insertion order.
MapKeys(m) == {m[i][1] : i \in 1..Len(m)}

MapHas(m, k) == k \in MapKeys(m)

MapGet(m, k) == m[CHOOSE i \in 1..Len(m) : m[i][1] = k][2]

MapSet(m, k, v) ==
  IF MapHas(m, k)
    THEN [i \in 1..Len(m) |-> IF m[i][1] = k THEN <<k, v>> ELSE m[i]]
    ELSE Append(m, <<k, v>>)

IsNotKey(e, k) == e[1] /= k

MapDelete(m, k) == SelectSeq(m, LAMBDA e : IsNotKey(e, k))

MapValues(m) == [i \in 1..Len(m) |-> m[i][2]]

RECURSIVE MapFromEntries(_)
MapFromEntries(es) ==
  IF es = <<>> THEN <<>>
  ELSE LET n == Len(es)
       IN MapSet(MapFromEntries(SubSeq(es, 1, n - 1)), es[n][1], es[n][2])

\* ------------------------------------------------------------- helpers
Min(a, b) == IF a < b THEN a ELSE b

Take(s, n) == SubSeq(s, 1, Min(n, Len(s)))

\* Array.prototype.sort with a comparator, cmp[j, i] being the comparator's
\* result for s[j] and s[i]: a stable sort, so s[j] lands before s[i] when the
\* comparator puts it first, or ranks them equal and j < i.
SortStable(s, cmp) ==
  LET n == Len(s)
      before(j, i) == \/ cmp[j, i] < 0
                      \/ cmp[j, i] = 0 /\ j < i
      rank(i) == 1 + Cardinality({j \in 1..n : j /= i /\ before(j, i)})
  IN [p \in 1..n |-> s[CHOOSE i \in 1..n : rank(i) = p]]

getCurrentDateString == "D" \o ToString(now \div DayLen)

generateConnectionId(connection) ==
  connection.from \o "-" \o connection.to \o "-" \o ToString(connection.timestamp)

\* c.pinned read as a condition: a connection made by the record loop has no
\* pinned property (undefined).
IsFlagged(c) == IF "pinned" \in DOMAIN c THEN c.pinned ELSE FALSE

getPinnedConnections ==
  [i \in 1..Len(pinnedConnections) |->
     [id |-> generateConnectionId(pinnedConnections[i][2]), pinned |-> TRUE]
       @@ pinnedConnections[i][2]]

HasId(s, id) == \E i \in 1..Len(s) : s[i].id = id

\* Faulty variant of the comparator: weaker connections first.
compareConnectionsAscending(a, b) ==
  IF a.pinned /\ ~b.pinned THEN -1
  ELSE IF ~a.pinned /\ b.pinned THEN 1
  ELSE IF a.strength /= b.strength THEN a.strength - b.strength
  ELSE b.timestamp - a.timestamp

compareConnections(a, b) ==
  IF a.pinned /\ ~b.pinned THEN -1
  ELSE IF ~a.pinned /\ b.pinned THEN 1
  ELSE IF a.strength /= b.strength THEN b.strength - a.strength
  ELSE b.timestamp - a.timestamp

\* Faulty variant of the merge: listed connections are appended even when
\* the ledger holds their id.
mergedConnectionsNoDedup ==
  getPinnedConnections
    \o [i \in 1..Len(connections) |->
          [id |-> generateConnectionId(connections[i]), pinned |-> FALSE]
            @@ connections[i]]

mergedConnections ==
  LET regularConnections ==
        [i \in 1..Len(connections) |->
           [id |-> generateConnectionId(connections[i]), pinned |-> FALSE]
             @@ connections[i]]
      pinned == getPinnedConnections
  IN pinned \o SelectSeq(regularConnections, LAMBDA r : ~HasId(pinned, r.id))

getAllConnections ==
  LET all == mergedConnections
  IN SortStable(all, [j, i \in 1..Len(all) |-> compareConnections(all[j], all[i])])

findConnection(connectionId) ==
  LET hits == {i \in 1..Len(connections) :
                 generateConnectionId(connections[i]) = connectionId}
  IN IF hits = {} THEN 0 ELSE CHOOSE i \in hits : \A j \in hits : i <= j
\* ------------------------------------------------------------- ledger
DEFAULT_SETTINGS ==
  [autoResetEnabled |-> TRUE, maxPinnedConnections |-> MaxPinned,
   dataRetentionDays |-> DataRetentionDays]

\* Faulty variant of pinConnection: refuses only above the maximum.
pinConnectionOffByOne(ledger, connectionId, connection) ==
  IF Len(ledger) > settings.maxPinnedConnections
    THEN [success |-> FALSE, ledger |-> ledger]
    ELSE [success |-> TRUE,
          ledger |-> MapSet(ledger, connectionId,
                            [pinned |-> TRUE, pinnedAt |-> now,
                             pinnedDate |-> getCurrentDateString] @@ connection)]

\* Faulty variant of pinConnection: the stored copy's timestamp is the pin's.
pinConnectionRestamped(ledger, connectionId, connection) ==
  IF Len(ledger) >= settings.maxPinnedConnections
    THEN [success |-> FALSE, ledger |-> ledger]
    ELSE [success |-> TRUE,
          ledger |-> MapSet(ledger, connectionId,
                            [pinned |-> TRUE, pinnedAt |-> now, timestamp |-> now,
                             pinnedDate |-> getCurrentDateString] @@ connection)]

\* Faulty variant of pinConnection: the entry is keyed by the id of the
\* connection's source item.
pinConnectionKeyedBySource(ledger, connectionId, connection) ==
  IF Len(ledger) >= settings.maxPinnedConnections
    THEN [success |-> FALSE, ledger |-> ledger]
    ELSE [success |-> TRUE,
          ledger |-> MapSet(ledger, connection.from,
                            [pinned |-> TRUE, pinnedAt |-> now,
                             pinnedDate |-> getCurrentDateString] @@ connection)]

\* WeavesStorageManager.pinConnection without its save.
pinConnection(ledger, connectionId, connection) ==
  IF Len(ledger) >= settings.maxPinnedConnections
    THEN [success |-> FALSE, ledger |-> ledger]
    ELSE [success |-> TRUE,
          ledger |-> MapSet(ledger, connectionId,
                            [pinned |-> TRUE, pinnedAt |-> now,
                             pinnedDate |-> getCurrentDateString] @@ connection)]

\* Faulty variant of unpinConnection: an entry is released only while its
\* connection is still in the daily list.
unpinConnectionListedOnly(ledger, connectionId) ==
  IF findConnection(connectionId) = 0
    THEN [removed |-> FALSE, ledger |-> ledger]
    ELSE [removed |-> MapHas(ledger, connectionId),
          ledger |-> MapDelete(ledger, connectionId)]

\* WeavesStorageManager.unpinConnection without its save.
unpinConnection(ledger, connectionId) ==
  [removed |-> MapHas(ledger, connectionId), ledger |-> MapDelete(ledger, connectionId)]

\* Faulty variant of the eviction order: latest pin first.
comparePinnedAtDescending(a, b) == b[2].pinnedAt - a[2].pinnedAt

comparePinnedAt(a, b) == a[2].pinnedAt - b[2].pinnedAt

\* WeavesStorageManager.cleanupPinnedConnections without its save.
cleanupPinnedConnections(ledger) ==
  IF Len(ledger) > settings.maxPinnedConnections
    THEN LET sortedPins ==
               SortStable(ledger, [j, i \in 1..Len(ledger) |->
                                    comparePinnedAt(ledger[j], ledger[i])])
             toRemove == SubSeq(sortedPins, 1,
                                Len(sortedPins) - settings.maxPinnedConnections)
         IN SelectSeq(ledger,
                      LAMBDA e : \A i \in 1..Len(toRemove) : toRemove[i][1] /= e[1])
    ELSE ledger

\* ------------------------------------------------------------- storage
\* Faulty variant of the serialization: the store's entries are written
\* latest first.
dataToStoreLatestFirst(store, conns) ==
  Some([contentStore |-> [i \in 1..Len(store) |-> store[Len(store) + 1 - i]],
        connections |-> conns])

\* What saveData writes under weavesData (its timestamp is never read back).
dataToStore(store, conns) == Some([contentStore |-> store, connections |-> conns])

\* chrome.storage.local.set of savePinnedConnections; a set that storage
\* rejects (stor.failing) writes nothing.
savePinnedConnections(stor, ledger) ==
  IF stor.failing THEN stor ELSE [stor EXCEPT !.pinnedConnections = Some(ledger)]

\* chrome.storage.local.set of saveData.
saveWeavesData(stor, store, conns) ==
  IF stor.failing THEN stor ELSE [stor EXCEPT !.weavesData = dataToStore(store, conns)]

\* chrome.storage.local.set of performDailyReset.
performDailyReset(stor, dateString) ==
  IF stor.failing THEN stor
  ELSE [stor EXCEPT !.weavesData = None, !.lastResetDate = dateString]

nextMidnight == (now \div DayLen + 1) * DayLen

IdleTask == [pc |-> "idle"]

\* A task inside performDailyReset, after its write (`wrote`: the set was not
\* rejected); `before` keeps the connection list and the ledger the reset found.
ResetCalled ==
  [pc |-> "cleanup", dateString |-> getCurrentDateString, wrote |-> ~storage.failing,
   before |-> [connections |-> connections, pinnedConnections |-> pinnedConnections]]

\* The constructors of WeavesStorageManager and WeavesAI, up to their first
\* await: both storage reads are issued here.
Constructed(stor) ==
  /\ settings' = DEFAULT_SETTINGS
  /\ pinnedConnections' = <<>>
  /\ contentStore' = <<>>
  /\ connections' = <<>>
  /\ inflight' = <<>>
  /\ done' = None
  /\ resetDue' = 0
  /\ tasks' = [init |-> [pc |-> "settings", got |-> stor.weavesSettings],
               load |-> [pc |-> "get", data |-> stor.weavesData,
                         lastReset |-> stor.lastResetDate],
               timer |-> IdleTask, ai |-> [pc |-> "availability"]]

EmptyStorage ==
  [weavesData |-> None, pinnedConnections |-> None, lastResetDate |-> "",
   weavesSettings |-> None, failing |-> FALSE]

\* What storage holds under weavesSettings at install: nothing, or a stored
\* maxPinnedConnections above the default.
StoredSettings == {None, Some([maxPinnedConnections |-> MaxPinned + 1])}

Init ==
  /\ now = 1
  /\ \E s \in StoredSettings : storage = [EmptyStorage EXCEPT !.weavesSettings = s]
  /\ settings = DEFAULT_SETTINGS
  /\ pinnedConnections = <<>>
  /\ contentStore = <<>>
  /\ connections = <<>>
  /\ inflight = <<>>
  /\ done = None
  /\ lastContent = NoContent
  /\ resetDue = 0
  /\ tasks = [init |-> [pc |-> "settings", got |-> storage.weavesSettings],
              load |-> [pc |-> "get", data |-> None, lastReset |-> ""],
              timer |-> IdleTask, ai |-> [pc |-> "availability"]]
  /\ budget = [ingest |-> MaxIngest, commands |-> MaxCommands, restarts |-> MaxRestarts,
               early |-> FALSE, overlap |-> FALSE,
               model |-> "available"]

Quiescent ==
  /\ inflight = <<>>
  /\ tasks.init.pc = "done"
  /\ tasks.load.pc = "done"
  /\ tasks.timer.pc = "idle"
  /\ tasks.ai.pc \in {"initialized", "failed"}

\* The browser stops the idle service worker and starts it again later.
Restart ==
  /\ Quiescent
  /\ budget.restarts > 0
  /\ budget' = [budget EXCEPT !.restarts = @ - 1]
  /\ Constructed(storage)
  /\ UNCHANGED <<now, storage, lastContent>>

Tick ==
  /\ now < MaxTime
  /\ now' = now + 1
  /\ done' = None
  /\ UNCHANGED <<settings, pinnedConnections, contentStore, connections, storage,
                 inflight, tasks, resetDue, budget, lastContent>>

\* chrome.storage.local starts to reject writes (quota, I/O error), and
\* accepts them again.
StorageFails ==
  /\ ~storage.failing
  /\ storage' = [storage EXCEPT !.failing = TRUE]
  /\ done' = None
  /\ UNCHANGED <<now, settings, pinnedConnections, contentStore, connections,
                 inflight, tasks, resetDue, budget, lastContent>>

StorageRecovers ==
  /\ storage.failing
  /\ storage' = [storage EXCEPT !.failing = FALSE]
  /\ done' = None
  /\ UNCHANGED <<now, settings, pinnedConnections, contentStore, connections,
                 inflight, tasks, resetDue, budget, lastContent>>

\* The setInterval callback of lines 804-816: items older than a week leave
\* the content store, and the connections not newer than a week ago leave the
\* connection list; nothing is saved.
Purge ==
  LET oneWeekAgo == now - PurgeDays * DayLen
  IN /\ contentStore' = SelectSeq(contentStore, LAMBDA e : ~(e[2].timestamp < oneWeekAgo))
     /\ connections' = SelectSeq(connections, LAMBDA conn : conn.timestamp > oneWeekAgo)
     /\ done' = None
     /\ UNCHANGED <<now, settings, pinnedConnections, storage, inflight, tasks,
                    resetDue, budget, lastContent>>

\* A week goes by while the worker has nothing in progress.
WeekPasses ==
  /\ now <= MaxTime
  /\ Quiescent
  /\ now' = now + PurgeDays * DayLen
  /\ done' = None
  /\ UNCHANGED <<settings, pinnedConnections, contentStore, connections, storage,
                 inflight, tasks, resetDue, budget, lastContent>>

\* ------------------------------------------------------------- startup
\* initializeStorage after its settings read: merges the settings and enters
\* checkAndPerformDailyReset.
InitSettings ==
  /\ tasks.init.pc = "settings"
  /\ LET merged == IF tasks.init.got = None THEN DEFAULT_SETTINGS
                   ELSE tasks.init.got[1] @@ DEFAULT_SETTINGS
     IN /\ settings' = merged
        /\ tasks' = [tasks EXCEPT !.init =
                       IF merged.autoResetEnabled
                         THEN [pc |-> "check", lastReset |-> storage.lastResetDate]
                         ELSE [pc |-> "loadPinned", got |-> storage.pinnedConnections]]
  /\ done' = None
  /\ UNCHANGED <<now, pinnedConnections, contentStore, connections, storage,
                 inflight, resetDue, budget, lastContent>>

\* checkAndPerformDailyReset after its read of lastResetDate; t is the caller
\* (initializeStorage or the timer).
CheckReset(t) ==
  /\ tasks[t].pc = "check"
  /\ IF tasks[t].lastReset /= getCurrentDateString
       THEN /\ storage' = performDailyReset(storage, getCurrentDateString)
            /\ tasks' = [tasks EXCEPT ![t] = ResetCalled]
       ELSE /\ storage' = storage
            /\ tasks' = [tasks EXCEPT ![t] =
                           IF t = "init"
                             THEN [pc |-> "loadPinned", got |-> storage.pinnedConnections]
                             ELSE IdleTask]
  /\ done' = None
  /\ UNCHANGED <<now, settings, pinnedConnections, contentStore, connections,
                 inflight, resetDue, budget, lastContent>>

\* performDailyReset after its write: cleanupPinnedConnections (skipped by the
\* catch when the write was rejected), then back in the caller t.
ResetCleanup(t) ==
  /\ tasks[t].pc = "cleanup"
  /\ LET ledger == IF tasks[t].wrote THEN cleanupPinnedConnections(pinnedConnections)
                   ELSE pinnedConnections
         saved == IF tasks[t].wrote /\ Len(pinnedConnections) > settings.maxPinnedConnections
                    THEN savePinnedConnections(storage, ledger) ELSE storage
     IN /\ pinnedConnections' = ledger
        /\ storage' = saved
        /\ IF t = "load"
             THEN /\ contentStore' = <<>>
                  /\ connections' = <<>>
                  /\ tasks' = [tasks EXCEPT !.load = [pc |-> "done"]]
             ELSE /\ UNCHANGED <<contentStore, connections>>
                  /\ tasks' = [tasks EXCEPT ![t] =
                                 IF t = "init"
                                   THEN [pc |-> "loadPinned", got |-> saved.pinnedConnections]
                                   ELSE IdleTask]
  /\ done' = None
  /\ UNCHANGED <<now, settings, inflight, resetDue, budget, lastContent>>

\* initializeStorage after loadPinnedConnections' read; then
\* scheduleNextResetCheck arms the timer.
InitLoadPinned ==
  /\ tasks.init.pc = "loadPinned"
  /\ pinnedConnections' = IF tasks.init.got = None THEN pinnedConnections
                          ELSE MapFromEntries(tasks.init.got[1])
  /\ resetDue' = nextMidnight
  /\ tasks' = [tasks EXCEPT !.init = [pc |-> "done"]]
  /\ done' = None
  /\ UNCHANGED <<now, settings, contentStore, connections, storage, inflight, budget, lastContent>>

\* WeavesStorageManager.loadStoredData after its read, and the assignment in
\* WeavesAI.loadStoredData when no reset is due.
LoadResume ==
  /\ tasks.load.pc = "get"
  /\ IF tasks.load.lastReset /= getCurrentDateString /\ settings.autoResetEnabled
       THEN /\ storage' = performDailyReset(storage, getCurrentDateString)
            /\ tasks' = [tasks EXCEPT !.load = ResetCalled]
            /\ UNCHANGED <<contentStore, connections>>
       ELSE /\ storage' = storage
            /\ tasks' = [tasks EXCEPT !.load = [pc |-> "done"]]
            /\ IF tasks.load.data = None
                 THEN contentStore' = <<>> /\ connections' = <<>>
                 ELSE /\ contentStore' = MapFromEntries(tasks.load.data[1].contentStore)
                      /\ connections' = tasks.load.data[1].connections
  /\ done' = None
  /\ UNCHANGED <<now, settings, pinnedConnections, inflight, resetDue, budget, lastContent>>

\* The timer of scheduleNextResetCheck fires: checkAndPerformDailyReset up to
\* its read, and the timer is armed again.
ResetTimer ==
  /\ resetDue /= 0
  /\ now >= resetDue
  /\ tasks.timer.pc = "idle"
  /\ tasks' = [tasks EXCEPT !.timer =
                 IF settings.autoResetEnabled
                   THEN [pc |-> "check", lastReset |-> storage.lastResetDate]
                   ELSE IdleTask]
  /\ resetDue' = nextMidnight
  /\ done' = None
  /\ UNCHANGED <<now, settings, pinnedConnections, contentStore, connections, storage,
                 inflight, budget, lastContent>>

\* WeavesAI.isInitialized: set once LanguageModel.create has resolved.
isInitialized == tasks.ai.pc = "initialized"

\* initializeAI after LanguageModel.availability() (lines 315-320): create is
\* called when the browser has a model; otherwise isInitialized stays false.
InitializeAI ==
  /\ tasks.ai.pc = "availability"
  /\ tasks' = [tasks EXCEPT !.ai =
                 IF budget.model = "unavailable" THEN [pc |-> "failed"]
                 ELSE [pc |-> "create"]]
  /\ done' = None
  /\ UNCHANGED <<now, settings, pinnedConnections, contentStore, connections, storage,
                 inflight, resetDue, budget, lastContent>>

\* initializeAI after LanguageModel.create() (lines 320-335): the session
\* exists, or create has rejected and the catch leaves isInitialized false.
SessionCreated ==
  /\ tasks.ai.pc = "create"
  /\ tasks' = [tasks EXCEPT !.ai =
                 IF budget.model = "createFails" THEN [pc |-> "failed"]
                 ELSE [pc |-> "initialized"]]
  /\ done' = None
  /\ UNCHANGED <<now, settings, pinnedConnections, contentStore, connections, storage,
                 inflight, resetDue, budget, lastContent>>
\* ------------------------------------------------------------- messages
Frame == UNCHANGED <<now, settings, tasks, resetDue, lastContent>>

\* sendResponse(r) by the invocation h.
Respond(h, r) == [h EXCEPT !.resp = Append(@, r)]

\* The invocation inflight[i] suspends again as h, or returns as h.
Suspend(i, h) == inflight' = [inflight EXCEPT ![i] = h] /\ done' = None

Return(i, h) ==
  /\ inflight' = SubSeq(inflight, 1, i - 1) \o SubSeq(inflight, i + 1, Len(inflight))
  /\ done' = Some(h)

\* A new invocation h of the listener runs up to its first suspension.
Enter(h) == inflight' = Append(inflight, h) /\ done' = None

EnterReturn(h) == inflight' = inflight /\ done' = Some(h)

\* `before` keeps the connection list and the ledger the message found.
NewInvocation(type, connectionId) ==
  [type |-> type, connectionId |-> connectionId, pc |-> "start", resp |-> <<>>,
   before |-> [connections |-> connections, pinnedConnections |-> pinnedConnections]]

\* The bounds on the environment: a message is taken while no other invocation
\* is suspended (or one, under budget.overlap), and after startup (or during
\* it, under budget.early).
StartupDone ==
  /\ tasks.init.pc = "done"
  /\ tasks.load.pc = "done"
  /\ tasks.ai.pc \in {"initialized", "failed"}

CanReceive ==
  /\ inflight = <<>> \/ (budget.overlap /\ Len(inflight) < 2)
  /\ budget.early \/ StartupDone

SpendCommand == budget.commands > 0 /\ budget' = [budget EXCEPT !.commands = @ - 1]

\* The ids a popup can send: those it was shown, or one that matches nothing.
SendableIds ==
  {generateConnectionId(connections[i]) : i \in 1..Len(connections)}
    \cup MapKeys(pinnedConnections) \cup {UnknownId}

ConnectionIds(conns) == {generateConnectionId(conns[i]) : i \in 1..Len(conns)}

RemoveConnection(conns, connectionId) ==
  SelectSeq(conns, LAMBDA c : generateConnectionId(c) /= connectionId)

\* WeavesAI.saveData up to the await of its first write; the invocation goes
\* on at pc `ret` once savePinnedConnections has written too.
SaveDataThen(i, h, ret, conns, ledger, stor, entering) ==
  /\ connections' = conns
  /\ pinnedConnections' = ledger
  /\ storage' = saveWeavesData(stor, contentStore', conns)
  /\ LET h2 == [pc |-> "savePinned", ret |-> ret, wrote |-> ~stor.failing] @@ h
     IN IF entering THEN Enter(h2) ELSE Suspend(i, h2)

\* saveData after its first write, with the rollback no catch of lines 101-138
\* does.
SavePinnedRollback(i) ==
  /\ inflight[i].pc = "savePinned"
  /\ storage' = IF inflight[i].wrote
                  THEN savePinnedConnections(storage, pinnedConnections)
                  ELSE storage
  /\ Suspend(i, [inflight[i] EXCEPT !.pc = inflight[i].ret])
  /\ connections' = IF inflight[i].wrote THEN connections
                    ELSE inflight[i].before.connections
  /\ UNCHANGED <<pinnedConnections, contentStore, budget>>
  /\ Frame

\* saveData after its first write: savePinnedConnections, unless the first
\* write was rejected and the catch has ended saveData.
SavePinned(i) ==
  /\ inflight[i].pc = "savePinned"
  /\ storage' = IF inflight[i].wrote
                  THEN savePinnedConnections(storage, pinnedConnections)
                  ELSE storage
  /\ Suspend(i, [inflight[i] EXCEPT !.pc = inflight[i].ret])
  /\ UNCHANGED <<pinnedConnections, contentStore, connections, budget>>
  /\ Frame

\* The second PIN_CONNECTION block (lines 710-741), entered by invocation h with
\* the ledger and storage left by the first block.
PinSecond(i, h, ledger, stor, entering) ==
  LET k == findConnection(h.connectionId)
  IN IF k = 0
       THEN /\ UNCHANGED <<contentStore, connections>>
            /\ pinnedConnections' = ledger
            /\ storage' = stor
            /\ IF entering THEN EnterReturn(Respond(h, [success |-> FALSE]))
                           ELSE Return(i, Respond(h, [success |-> FALSE]))
       ELSE LET conns == [connections EXCEPT ![k] = [pinned |-> TRUE] @@ @]
                r == pinConnection(ledger, h.connectionId, conns[k])
            IN /\ contentStore' = contentStore
               /\ IF r.success
                    THEN /\ connections' = conns
                         /\ pinnedConnections' = r.ledger
                         /\ storage' = savePinnedConnections(stor, r.ledger)
                         /\ IF entering THEN Enter([h EXCEPT !.pc = "pin2"])
                                        ELSE Suspend(i, [h EXCEPT !.pc = "pin2"])
                    ELSE SaveDataThen(i, h, "pin2respond", conns, r.ledger, stor, entering)

\* PIN_CONNECTION arrives: the first block (lines 665-668) up to the await of
\* the ledger's save, or, when nothing is saved, on through its response into
\* the second block.
ReceivePin(connectionId) ==
  /\ CanReceive
  /\ SpendCommand
  /\ LET h == NewInvocation("PIN_CONNECTION", connectionId)
         k == findConnection(connectionId)
         r == IF k = 0 THEN [success |-> FALSE, ledger |-> pinnedConnections]
              ELSE pinConnection(pinnedConnections, connectionId, connections[k])
     IN IF r.success
          THEN /\ pinnedConnections' = r.ledger
               /\ storage' = savePinnedConnections(storage, r.ledger)
               /\ Enter([h EXCEPT !.pc = "pin1"])
               /\ UNCHANGED <<contentStore, connections>>
          ELSE PinSecond(0, Respond(h, [success |-> FALSE]), r.ledger, storage, TRUE)
  /\ Frame

\* The first block's pin is saved: it responds, and the second block runs.
Pin1(i) ==
  /\ inflight[i].pc = "pin1"
  /\ PinSecond(i, Respond(inflight[i], [success |-> TRUE]), pinnedConnections, storage, FALSE)
  /\ UNCHANGED budget
  /\ Frame

\* The second block's pin is saved: saveData.
Pin2(i) ==
  /\ inflight[i].pc = "pin2"
  /\ contentStore' = contentStore
  /\ SaveDataThen(i, inflight[i], "pin2respond", connections, pinnedConnections, storage, FALSE)
  /\ UNCHANGED budget
  /\ Frame

Pin2Respond(i) ==
  /\ inflight[i].pc = "pin2respond"
  /\ Return(i, Respond(inflight[i], [success |-> TRUE]))
  /\ UNCHANGED <<pinnedConnections, contentStore, connections, storage, budget>>
  /\ Frame

\* The second UNPIN_CONNECTION block (lines 743-770) up to the await in saveData.
UnpinSecond(i, h, ledger, stor, entering) ==
  LET k == findConnection(h.connectionId)
      conns == IF k = 0 THEN connections
               ELSE [connections EXCEPT ![k] = [pinned |-> FALSE] @@ @]
      r == unpinConnection(ledger, h.connectionId)
  IN /\ contentStore' = contentStore
     /\ IF r.removed
          THEN /\ connections' = conns
               /\ pinnedConnections' = r.ledger
               /\ storage' = savePinnedConnections(stor, r.ledger)
               /\ IF entering THEN Enter([h EXCEPT !.pc = "unpin2"])
                              ELSE Suspend(i, [h EXCEPT !.pc = "unpin2"])
          ELSE SaveDataThen(i, h, "unpin2respond", conns, r.ledger, stor, entering)

\* UNPIN_CONNECTION arrives: the first block (lines 670-673).
ReceiveUnpin(connectionId) ==
  /\ CanReceive
  /\ SpendCommand
  /\ LET h == NewInvocation("UNPIN_CONNECTION", connectionId)
         r == unpinConnection(pinnedConnections, connectionId)
     IN IF r.removed
          THEN /\ pinnedConnections' = r.ledger
               /\ storage' = savePinnedConnections(storage, r.ledger)
               /\ Enter([h EXCEPT !.pc = "unpin1"])
               /\ UNCHANGED <<contentStore, connections>>
          ELSE UnpinSecond(0, Respond(h, [success |-> FALSE]), r.ledger, storage, TRUE)
  /\ Frame

Unpin1(i) ==
  /\ inflight[i].pc = "unpin1"
  /\ UnpinSecond(i, Respond(inflight[i], [success |-> TRUE]), pinnedConnections, storage, FALSE)
  /\ UNCHANGED budget
  /\ Frame

Unpin2(i) ==
  /\ inflight[i].pc = "unpin2"
  /\ contentStore' = contentStore
  /\ SaveDataThen(i, inflight[i], "unpin2respond", connections, pinnedConnections, storage, FALSE)
  /\ UNCHANGED budget
  /\ Frame

Unpin2Respond(i) ==
  /\ inflight[i].pc = "unpin2respond"
  /\ Return(i, Respond(inflight[i], [success |-> TRUE]))
  /\ UNCHANGED <<pinnedConnections, contentStore, connections, storage, budget>>
  /\ Frame

\* A DELETE_CONNECTION block from its filter to the first await: block 1 is
\* lines 680-700, block 2 is lines 772-798.
DeleteBlock(i, h, block, entering) ==
  LET conns == RemoveConnection(connections, h.connectionId)
      wasDeleted == Len(conns) < Len(connections)
      r == unpinConnection(pinnedConnections, h.connectionId)
      h2 == IF block = 2 THEN h @@ [wasDeleted |-> wasDeleted] ELSE h
      saved == IF block = 1 THEN "delete1saved" ELSE "delete2saved"
      respond == IF block = 1 THEN "delete1respond" ELSE "delete2respond"
  IN /\ contentStore' = contentStore
     /\ IF r.removed
          THEN /\ connections' = conns
               /\ pinnedConnections' = r.ledger
               /\ storage' = savePinnedConnections(storage, r.ledger)
               /\ IF entering THEN Enter([h2 EXCEPT !.pc = saved])
                              ELSE Suspend(i, [h2 EXCEPT !.pc = saved])
          ELSE SaveDataThen(i, h2, respond, conns, r.ledger, storage, entering)

ReceiveDelete(connectionId) ==
  /\ CanReceive
  /\ SpendCommand
  /\ DeleteBlock(0, NewInvocation("DELETE_CONNECTION", connectionId), 1, TRUE)
  /\ Frame

\* unpinConnection of a delete block has saved the ledger: saveData.
DeleteSaved(i) ==
  /\ inflight[i].pc \in {"delete1saved", "delete2saved"}
  /\ contentStore' = contentStore
  /\ SaveDataThen(i, inflight[i],
                  IF inflight[i].pc = "delete1saved" THEN "delete1respond"
                  ELSE "delete2respond",
                  connections, pinnedConnections, storage, FALSE)
  /\ UNCHANGED budget
  /\ Frame

\* The first block responds success:true, and the second block runs.
Delete1Respond(i) ==
  /\ inflight[i].pc = "delete1respond"
  /\ DeleteBlock(i, Respond(inflight[i], [success |-> TRUE]), 2, FALSE)
  /\ UNCHANGED budget
  /\ Frame

Delete2Respond(i) ==
  /\ inflight[i].pc = "delete2respond"
  /\ Return(i, Respond(inflight[i], [success |-> inflight[i].wasDeleted]))
  /\ UNCHANGED <<pinnedConnections, contentStore, connections, storage, budget>>
  /\ Frame

\* CLEAR_DATA arrives (lines 702-708), up to the await in saveData.
ReceiveClear ==
  /\ CanReceive
  /\ SpendCommand
  /\ contentStore' = <<>>
  /\ SaveDataThen(0, NewInvocation("CLEAR_DATA", ""), "clearRespond", <<>>,
                  pinnedConnections, storage, TRUE)
  /\ Frame

ClearRespond(i) ==
  /\ inflight[i].pc = "clearRespond"
  /\ Return(i, Respond(inflight[i], [success |-> TRUE]))
  /\ UNCHANGED <<pinnedConnections, contentStore, connections, storage, budget>>
  /\ Frame
\* GET_CONNECTIONS (lines 649-663): answered without suspending.
compareTimestamp(a, b) == b.timestamp - a.timestamp

\* Faulty variant of the recency order: oldest first.
sortOldestFirst(s) ==
  SortStable(s, [j, i \in 1..Len(s) |-> compareTimestamp(s[i], s[j])])

\* .sort((a, b) => b.timestamp - a.timestamp)
sortByRecency(s) ==
  SortStable(s, [j, i \in 1..Len(s) |-> compareTimestamp(s[j], s[i])])

ReceiveGet ==
  /\ CanReceive
  /\ SpendCommand
  /\ EnterReturn(Respond(NewInvocation("GET_CONNECTIONS", ""),
        [content |-> Take(sortByRecency(MapValues(contentStore)),
                          RecentContentLimit),
         connections |-> Take(getAllConnections, ConnectionsLimit)]))
  /\ UNCHANGED <<pinnedConnections, contentStore, connections, storage>>
  /\ Frame

\* ------------------------------------------------------------- ingestion
\* What session.prompt can give analyzeContent: JSON, text that JSON.parse
\* rejects, or a rejection.
PromptResults ==
  IF budget.model = "flaky" THEN {"json", "text", "rejected"} ELSE {"json"}

\* analyzeContent (lines 338-391) up to its await: the placeholder when
\* isInitialized is false, otherwise the prompt is pending.
analyzeContent == IF isInitialized THEN "prompt" ELSE "unanalyzed"

\* analyzeContent after session.prompt: the parsed analysis, or
\* minimalFallbackAnalysis when the parse or the prompt has failed.
analyzeContentResult(pending, result) ==
  IF pending /= "prompt" THEN pending
  ELSE IF result = "json" THEN "analyzed"
  ELSE "minimalFallback"

\* CONTENT_UPDATE arrives from tab `tab` (lines 585-599): the content object is
\* built, and analyzeContent is called.
ContentUpdateArrives(tab, title, url) ==
  /\ CanReceive
  /\ budget.ingest > 0
  /\ budget' = [budget EXCEPT !.ingest = @ - 1]
  /\ Enter([pc |-> "analyze", analysis |-> analyzeContent,
            content |-> [id |-> ToString(tab) \o "-" \o ToString(now), tabId |-> tab,
                         url |-> url, title |-> title, timestamp |-> now]]
           @@ NewInvocation("CONTENT_UPDATE", ""))
  /\ UNCHANGED <<pinnedConnections, contentStore, connections, storage>>
  /\ UNCHANGED <<now, settings, tasks, resetDue>>

ReceiveContentUpdate(tab, title, url) ==
  /\ ContentUpdateArrives(tab, title, url)
  /\ UNCHANGED lastContent

\* String.prototype.toLowerCase on one word.
toLowerCase(w) == IF w = "A" THEN "a" ELSE w

\* contentSimilarity with the size of the first set as the denominator.
contentSimilarityOfFirst(str1, str2) ==
  IF str1.length = 0 \/ str2.length = 0 THEN 0
  ELSE LET set1 == {toLowerCase(w) : w \in str1.words}
           set2 == {toLowerCase(w) : w \in str2.words}
       IN (100 * Cardinality(set1 \cap set2)) \div Cardinality(set1)

\* WeavesContentExtractor.contentSimilarity (part_000 lines 411-418), in
\* hundredths rounded down.
contentSimilarity(str1, str2) ==
  IF str1.length = 0 \/ str2.length = 0 THEN 0
  ELSE LET set1 == {toLowerCase(w) : w \in str1.words}
           set2 == {toLowerCase(w) : w \in str2.words}
           intersection == set1 \cap set2
           union == set1 \cup set2
       IN (100 * Cardinality(intersection)) \div Cardinality(union)

\* Faulty variant of extractAndSend: the length of the text is not tested.
ExtractAndSendAnyLength(page, extracted) ==
  IF ~(contentSimilarity(extracted, lastContent) < SimilarityThreshold)
    THEN /\ done' = None
         /\ UNCHANGED <<now, settings, pinnedConnections, contentStore, connections,
                        storage, inflight, tasks, resetDue, budget, lastContent>>
    ELSE /\ lastContent' = extracted
         /\ ContentUpdateArrives(page.tab, page.title, page.url)

\* WeavesContentExtractor.extractAndSend (part_000 lines 380-409) on a page
\* whose text is `extracted`, up to its await of sendMessage, and the
\* listener's run on the CONTENT_UPDATE it sends.
ExtractAndSend(page, extracted) ==
  IF extracted.length < MinContentLength
       \/ ~(contentSimilarity(extracted, lastContent) < SimilarityThreshold)
    THEN /\ done' = None
         /\ UNCHANGED <<now, settings, pinnedConnections, contentStore, connections,
                        storage, inflight, tasks, resetDue, budget, lastContent>>
    ELSE /\ lastContent' = extracted
         /\ ContentUpdateArrives(page.tab, page.title, page.url)

\* Faulty variant of the comparison set: the new item is not filtered out.
existingContentsWithSelf(store, id) ==
  Take(sortByRecency(MapValues(store)), ComparisonSetSize)

\* The comparison set of lines 604-607 for the item with id `id`.
existingContents(store, id) ==
  Take(sortByRecency(SelectSeq(MapValues(store), LAMBDA c : c.id /= id)),
       ComparisonSetSize)

\* The analysis is back (lines 599-609): the item is stored, and findConnections
\* is called with the first PromptCap items of the comparison set; it prompts
\* the language model when isInitialized.
Analyzed(i, result) ==
  /\ inflight[i].pc = "analyze"
  /\ inflight[i].analysis = "prompt" \/ result = "json"
  /\ LET content == [analysis |-> analyzeContentResult(inflight[i].analysis, result)]
                      @@ inflight[i].content
         existing == existingContents(contentStore', content.id)
         existingAnalyses == Take(existing, PromptCap)
     IN /\ contentStore' = MapSet(contentStore, content.id, content)
        /\ Suspend(i, [pc |-> "find", content |-> content, prompting |-> isInitialized,
                        existingAnalyses |->
                          [j \in 1..Len(existingAnalyses) |-> existingAnalyses[j].id]]
                       @@ inflight[i])
  /\ UNCHANGED <<pinnedConnections, connections, storage, budget>>
  /\ Frame

\* The validation without its test of the shallow phrases.
IsValidLineAnyPhrase(line, existingAnalyses) ==
  /\ line.index >= 0
  /\ line.index < Len(existingAnalyses)
  /\ line.strength >= MinStrength
  /\ line.strength <= MaxStrength
  /\ line.reason.length > MinReasonLength

\* The validation of one CONNECT: line (lines 478-483).
IsValidLine(line, existingAnalyses) ==
  /\ line.index >= 0
  /\ line.index < Len(existingAnalyses)
  /\ line.strength >= MinStrength
  /\ line.strength <= MaxStrength
  /\ line.reason.length > MinReasonLength
  /\ line.reason.includes \notin ShallowPhrases

\* findConnections' parse of the model's response (lines 465-503).
parseConnections(lines, existingAnalyses) ==
  LET valid == SelectSeq(lines, LAMBDA l : IsValidLine(l, existingAnalyses))
  IN [j \in 1..Len(valid) |->
        [contentId |-> existingAnalyses[valid[j].index + 1],
         strength |-> valid[j].strength, reason |-> valid[j].reason]]

\* The connection the record loop pushes for candidate conn (lines 611-629).
recordConnection(content, conn, store) ==
  [from |-> content.id, to |-> conn.contentId, fromTitle |-> content.title,
   toTitle |-> IF MapHas(store, conn.contentId)
                    /\ MapGet(store, conn.contentId).title /= ""
                 THEN MapGet(store, conn.contentId).title
                 ELSE "Unknown",
   fromUrl |-> content.url,
   toUrl |-> IF MapHas(store, conn.contentId) THEN MapGet(store, conn.contentId).url
             ELSE "",
   strength |-> conn.strength, reason |-> conn.reason, timestamp |-> now]

\* Faulty variant of the handler's tail: the counts are reported as soon as
\* the candidates are recorded, and saveData is not called.
SearchedWithoutSave(i, lines) ==
  /\ inflight[i].pc = "find"
  /\ inflight[i].prompting \/ lines = <<>>
  /\ LET h == inflight[i]
         found == parseConnections(lines, h.existingAnalyses)
         recorded == [j \in 1..Len(found) |->
                        recordConnection(h.content, found[j], contentStore)]
         high == SelectSeq(found, LAMBDA c : c.strength >= HighQualityStrength)
     IN /\ connections' = connections \o recorded
        /\ Return(i, Respond([response |-> lines, found |-> found,
                               ret |-> "contentRespond", wrote |-> FALSE] @@ h,
                              [success |-> TRUE, connections |-> Len(found),
                               highQuality |-> Len(high)]))
  /\ UNCHANGED <<pinnedConnections, contentStore, storage, budget>>
  /\ Frame

\* The model's answer is back (lines 609-631): the accepted candidates are
\* recorded, and saveData starts.
Searched(i, lines) ==
  /\ inflight[i].pc = "find"
  /\ inflight[i].prompting \/ lines = <<>>
  /\ LET h == inflight[i]
         found == parseConnections(lines, h.existingAnalyses)
         recorded == [j \in 1..Len(found) |->
                        recordConnection(h.content, found[j], contentStore)]
     IN /\ contentStore' = contentStore
        /\ SaveDataThen(i, [response |-> lines, found |-> found] @@ h, "contentRespond",
                        connections \o recorded, pinnedConnections, storage, FALSE)
  /\ UNCHANGED budget
  /\ Frame

\* The filter of line 633 with the validation's threshold.
highQualityConnectionsAll(found) ==
  SelectSeq(found, LAMBDA c : c.strength >= MinStrength)

\* connections.filter(c => c.strength >= 0.75) of line 633.
highQualityConnections(found) ==
  SelectSeq(found, LAMBDA c : c.strength >= HighQualityStrength)

\* The save is done (lines 633-642): the counts are reported.
ContentRespond(i) ==
  /\ inflight[i].pc = "contentRespond"
  /\ LET found == inflight[i].found
     IN Return(i, Respond(inflight[i],
                          [success |-> TRUE, connections |-> Len(found),
                           highQuality |-> Len(highQualityConnections(found))]))
  /\ UNCHANGED <<pinnedConnections, contentStore, connections, storage, budget>>
  /\ Frame

\* ------------------------------------------------------------- system
LineSeqs == UNION {[1..n -> Lines] : n \in 0..MaxLines}

Next ==
  \/ Tick
  \/ Restart
  \/ InitSettings
  \/ InitLoadPinned
  \/ LoadResume
  \/ InitializeAI
  \/ SessionCreated
  \/ ResetTimer
  \/ \E t \in {"init", "timer"} : CheckReset(t)
  \/ \E t \in {"init", "load", "timer"} : ResetCleanup(t)
  \/ \E page \in Pages : ReceiveContentUpdate(page.tab, page.title, page.url)
  \/ ReceiveGet
  \/ ReceiveClear
  \/ \E id \in SendableIds : ReceivePin(id)
  \/ \E id \in SendableIds : ReceiveUnpin(id)
  \/ \E id \in SendableIds : ReceiveDelete(id)
  \/ \E i \in 1..Len(inflight), result \in PromptResults : Analyzed(i, result)
  \/ \E i \in 1..Len(inflight), lines \in LineSeqs : Searched(i, lines)
  \/ \E i \in 1..Len(inflight) : ContentRespond(i)
  \/ \E i \in 1..Len(inflight) : SavePinned(i)
  \/ \E i \in 1..Len(inflight) : Pin1(i)
  \/ \E i \in 1..Len(inflight) : Pin2(i)
  \/ \E i \in 1..Len(inflight) : Pin2Respond(i)
  \/ \E i \in 1..Len(inflight) : Unpin1(i)
  \/ \E i \in 1..Len(inflight) : Unpin2Respond(i)
  \/ \E i \in 1..Len(inflight) : DeleteSaved(i)
  \/ \E i \in 1..Len(inflight) : Delete1Respond(i)
  \/ \E i \in 1..Len(inflight) : Delete2Respond(i)
  \/ \E i \in 1..Len(inflight) : ClearRespond(i)

\* One message at a time: no second message arrives while an invocation is
\* suspended, so the second UNPIN_CONNECTION block never finds a ledger entry
\* (Unpin2 needs a PIN_CONNECTION in between).
Spec == Init /\ [][Next]_vars

\* Two messages in flight at once.
InitOverlap ==
  /\ now = 1
  /\ storage = EmptyStorage
  /\ settings = DEFAULT_SETTINGS
  /\ pinnedConnections = <<>>
  /\ contentStore = <<>>
  /\ connections = <<>>
  /\ inflight = <<>>
  /\ done = None
  /\ lastContent = NoContent
  /\ resetDue = 0
  /\ tasks = [init |-> [pc |-> "settings", got |-> None],
              load |-> [pc |-> "get", data |-> None, lastReset |-> ""],
              timer |-> IdleTask, ai |-> [pc |-> "availability"]]
  /\ budget = [ingest |-> MaxIngest - 1, commands |-> MaxCommands,
               restarts |-> 0, early |-> FALSE, overlap |-> TRUE,
               model |-> "available"]

NextOverlap ==
  \/ Tick
  \/ InitSettings
  \/ InitLoadPinned
  \/ LoadResume
  \/ InitializeAI
  \/ SessionCreated
  \/ ResetTimer
  \/ \E t \in {"init", "timer"} : CheckReset(t)
  \/ \E t \in {"init", "load", "timer"} : ResetCleanup(t)
  \/ \E page \in Pages : ReceiveContentUpdate(page.tab, page.title, page.url)
  \/ ReceiveGet
  \/ ReceiveClear
  \/ \E id \in SendableIds : ReceivePin(id)
  \/ \E id \in SendableIds : ReceiveUnpin(id)
  \/ \E id \in SendableIds : ReceiveDelete(id)
  \/ \E i \in 1..Len(inflight), result \in PromptResults : Analyzed(i, result)
  \/ \E i \in 1..Len(inflight), lines \in LineSeqs : Searched(i, lines)
  \/ \E i \in 1..Len(inflight) : ContentRespond(i)
  \/ \E i \in 1..Len(inflight) : SavePinned(i)
  \/ \E i \in 1..Len(inflight) : Pin1(i)
  \/ \E i \in 1..Len(inflight) : Pin2(i)
  \/ \E i \in 1..Len(inflight) : Pin2Respond(i)
  \/ \E i \in 1..Len(inflight) : Unpin1(i)
  \/ \E i \in 1..Len(inflight) : Unpin2(i)
  \/ \E i \in 1..Len(inflight) : Unpin2Respond(i)
  \/ \E i \in 1..Len(inflight) : DeleteSaved(i)
  \/ \E i \in 1..Len(inflight) : Delete1Respond(i)
  \/ \E i \in 1..Len(inflight) : Delete2Respond(i)
  \/ \E i \in 1..Len(inflight) : ClearRespond(i)

SpecOverlap == InitOverlap /\ [][NextOverlap]_vars

\* Startup with messages arriving while initializeStorage and loadStoredData
\* are still suspended: a fresh install and one page update.
InitStartup ==
  /\ now = 1
  /\ storage = EmptyStorage
  /\ settings = DEFAULT_SETTINGS
  /\ pinnedConnections = <<>>
  /\ contentStore = <<>>
  /\ connections = <<>>
  /\ inflight = <<>>
  /\ done = None
  /\ lastContent = NoContent
  /\ resetDue = 0
  /\ tasks = [init |-> [pc |-> "settings", got |-> None],
              load |-> [pc |-> "get", data |-> None, lastReset |-> ""],
              timer |-> IdleTask, ai |-> [pc |-> "availability"]]
  /\ budget = [ingest |-> 2, commands |-> 0, restarts |-> 0,
               early |-> TRUE, overlap |-> FALSE, model |-> "available"]

NextStartup ==
  \/ Tick
  \/ InitSettings
  \/ InitLoadPinned
  \/ LoadResume
  \/ InitializeAI
  \/ SessionCreated
  \/ ResetTimer
  \/ \E t \in {"init", "timer"} : CheckReset(t)
  \/ \E t \in {"init", "load", "timer"} : ResetCleanup(t)
  \/ \E page \in Pages : ReceiveContentUpdate(page.tab, page.title, page.url)
  \/ \E i \in 1..Len(inflight), result \in PromptResults : Analyzed(i, result)
  \/ \E i \in 1..Len(inflight), lines \in LineSeqs : Searched(i, lines)
  \/ \E i \in 1..Len(inflight) : ContentRespond(i)
  \/ \E i \in 1..Len(inflight) : SavePinned(i)

SpecStartup == InitStartup /\ [][NextStartup]_vars

\* Ingestion alone: two page updates after a fresh install, one at a time, and
\* a language model that answers with up to MaxResponse lines.
Responses == UNION {[1..n -> ResponseLines] : n \in 0..MaxResponse}

InitIngest ==
  /\ now = 1
  /\ storage = EmptyStorage
  /\ settings = DEFAULT_SETTINGS
  /\ pinnedConnections = <<>>
  /\ contentStore = <<>>
  /\ connections = <<>>
  /\ inflight = <<>>
  /\ done = None
  /\ lastContent = NoContent
  /\ resetDue = 0
  /\ tasks = [init |-> [pc |-> "settings", got |-> None],
              load |-> [pc |-> "get", data |-> None, lastReset |-> ""],
              timer |-> IdleTask, ai |-> [pc |-> "availability"]]
  /\ budget = [ingest |-> 2, commands |-> 0, restarts |-> 0,
               early |-> FALSE, overlap |-> FALSE, model |-> "available"]

NextIngest ==
  \/ Tick
  \/ InitSettings
  \/ InitLoadPinned
  \/ LoadResume
  \/ InitializeAI
  \/ SessionCreated
  \/ ResetTimer
  \/ \E t \in {"init", "timer"} : CheckReset(t)
  \/ \E t \in {"init", "load", "timer"} : ResetCleanup(t)
  \/ \E page \in IngestPages : ReceiveContentUpdate(page.tab, page.title, page.url)
  \/ \E i \in 1..Len(inflight), result \in PromptResults : Analyzed(i, result)
  \/ \E i \in 1..Len(inflight), lines \in Responses : Searched(i, lines)
  \/ \E i \in 1..Len(inflight) : ContentRespond(i)
  \/ \E i \in 1..Len(inflight) : SavePinned(i)

SpecIngest == InitIngest /\ [][NextIngest]_vars

\* Ingestion with a browser whose language model is missing, cannot create a
\* session, or answers analyzeContent's prompt with text or a rejection.
Models == {"unavailable", "createFails", "flaky"}

InitAI ==
  /\ now = 1
  /\ storage = EmptyStorage
  /\ settings = DEFAULT_SETTINGS
  /\ pinnedConnections = <<>>
  /\ contentStore = <<>>
  /\ connections = <<>>
  /\ inflight = <<>>
  /\ done = None
  /\ lastContent = NoContent
  /\ resetDue = 0
  /\ tasks = [init |-> [pc |-> "settings", got |-> None],
              load |-> [pc |-> "get", data |-> None, lastReset |-> ""],
              timer |-> IdleTask, ai |-> [pc |-> "availability"]]
  /\ \E m \in Models :
       budget = [ingest |-> 2, commands |-> 0, restarts |-> 0,
                 early |-> FALSE, overlap |-> FALSE, model |-> m]

NextAI ==
  \/ Tick
  \/ InitSettings
  \/ InitLoadPinned
  \/ LoadResume
  \/ InitializeAI
  \/ SessionCreated
  \/ ResetTimer
  \/ \E t \in {"init", "timer"} : CheckReset(t)
  \/ \E t \in {"init", "load", "timer"} : ResetCleanup(t)
  \/ \E page \in Pages : ReceiveContentUpdate(page.tab, page.title, page.url)
  \/ \E i \in 1..Len(inflight), result \in PromptResults : Analyzed(i, result)
  \/ \E i \in 1..Len(inflight), lines \in LineSeqs : Searched(i, lines)
  \/ \E i \in 1..Len(inflight) : ContentRespond(i)
  \/ \E i \in 1..Len(inflight) : SavePinned(i)

SpecAI == InitAI /\ [][NextAI]_vars

\* Ingestion and CLEAR_DATA with a storage that rejects writes now and then.
InitFault ==
  /\ now = 1
  /\ storage = EmptyStorage
  /\ settings = DEFAULT_SETTINGS
  /\ pinnedConnections = <<>>
  /\ contentStore = <<>>
  /\ connections = <<>>
  /\ inflight = <<>>
  /\ done = None
  /\ lastContent = NoContent
  /\ resetDue = 0
  /\ tasks = [init |-> [pc |-> "settings", got |-> None],
              load |-> [pc |-> "get", data |-> None, lastReset |-> ""],
              timer |-> IdleTask, ai |-> [pc |-> "availability"]]
  /\ budget = [ingest |-> 2, commands |-> 1, restarts |-> 0,
               early |-> FALSE, overlap |-> FALSE, model |-> "available"]

NextFault ==
  \/ Tick
  \/ StorageFails
  \/ StorageRecovers
  \/ InitSettings
  \/ InitLoadPinned
  \/ LoadResume
  \/ InitializeAI
  \/ SessionCreated
  \/ ResetTimer
  \/ \E t \in {"init", "timer"} : CheckReset(t)
  \/ \E t \in {"init", "load", "timer"} : ResetCleanup(t)
  \/ \E page \in Pages : ReceiveContentUpdate(page.tab, page.title, page.url)
  \/ \E i \in 1..Len(inflight), result \in PromptResults : Analyzed(i, result)
  \/ \E i \in 1..Len(inflight), lines \in LineSeqs : Searched(i, lines)
  \/ \E i \in 1..Len(inflight) : ContentRespond(i)
  \/ \E i \in 1..Len(inflight) : SavePinned(i)
  \/ ReceiveClear
  \/ \E i \in 1..Len(inflight) : ClearRespond(i)

SpecFault == InitFault /\ [][NextFault]_vars

\* The worker stays up for more than a week: the purge sweep, with
\* ingestion and the popup's commands.
InitPurge ==
  /\ now = 1
  /\ storage = EmptyStorage
  /\ settings = DEFAULT_SETTINGS
  /\ pinnedConnections = <<>>
  /\ contentStore = <<>>
  /\ connections = <<>>
  /\ inflight = <<>>
  /\ done = None
  /\ lastContent = NoContent
  /\ resetDue = 0
  /\ tasks = [init |-> [pc |-> "settings", got |-> None],
              load |-> [pc |-> "get", data |-> None, lastReset |-> ""],
              timer |-> IdleTask, ai |-> [pc |-> "availability"]]
  /\ budget = [ingest |-> 2, commands |-> MaxCommands, restarts |-> 0,
               early |-> FALSE, overlap |-> FALSE, model |-> "available"]

NextPurge ==
  \/ Tick
  \/ WeekPasses
  \/ Purge
  \/ InitSettings
  \/ InitLoadPinned
  \/ LoadResume
  \/ InitializeAI
  \/ SessionCreated
  \/ ResetTimer
  \/ \E t \in {"init", "timer"} : CheckReset(t)
  \/ \E t \in {"init", "load", "timer"} : ResetCleanup(t)
  \/ \E page \in Pages : ReceiveContentUpdate(page.tab, page.title, page.url)
  \/ ReceiveGet
  \/ ReceiveClear
  \/ \E id \in SendableIds : ReceivePin(id)
  \/ \E id \in SendableIds : ReceiveUnpin(id)
  \/ \E id \in SendableIds : ReceiveDelete(id)
  \/ \E i \in 1..Len(inflight), result \in PromptResults : Analyzed(i, result)
  \/ \E i \in 1..Len(inflight), lines \in LineSeqs : Searched(i, lines)
  \/ \E i \in 1..Len(inflight) : ContentRespond(i)
  \/ \E i \in 1..Len(inflight) : SavePinned(i)
  \/ \E i \in 1..Len(inflight) : Pin1(i)
  \/ \E i \in 1..Len(inflight) : Pin2Respond(i)
  \/ \E i \in 1..Len(inflight) : Unpin1(i)
  \/ \E i \in 1..Len(inflight) : Unpin2Respond(i)
  \/ \E i \in 1..Len(inflight) : DeleteSaved(i)
  \/ \E i \in 1..Len(inflight) : Delete1Respond(i)
  \/ \E i \in 1..Len(inflight) : Delete2Respond(i)
  \/ \E i \in 1..Len(inflight) : ClearRespond(i)

SpecPurge == InitPurge /\ [][NextPurge]_vars

\* The worker starts on what chrome.storage.local already holds: a ledger
\* saved by earlier runs and a stored maxPinnedConnections, which may by now
\* be below the ledger's size (storage-manager.js's updateSettings writes
\* weavesSettings; pinning an id again keeps its place in the Map and renews
\* its pinnedAt, so pinnedAt need not follow the Map's order).
PersistedPin(k, at) ==
  LET c == [from |-> "1-" \o ToString(k), to |-> "1-0", timestamp |-> 0,
            strength |-> MinStrength, reason |-> DeepReason,
            fromTitle |-> "A", toTitle |-> "A", fromUrl |-> "a", toUrl |-> "a"]
  IN <<generateConnectionId(c),
       [pinned |-> TRUE, pinnedAt |-> at, pinnedDate |-> "D0"] @@ c>>

PersistedLedgers ==
  UNION {{[k \in 1..n |-> PersistedPin(k, ats[k])] : ats \in [1..n -> {0, 1}]}
           : n \in 0..(MaxPinned + 2)}

InitCleanup ==
  /\ now = 1
  /\ \E ledger \in PersistedLedgers, max \in {MaxPinned, MaxPinned + 1},
        last \in {"", "D0"} :
       storage = [EmptyStorage EXCEPT
                    !.pinnedConnections = Some(ledger),
                    !.weavesSettings = Some([maxPinnedConnections |-> max]),
                    !.lastResetDate = last]
  /\ settings = DEFAULT_SETTINGS
  /\ pinnedConnections = <<>>
  /\ contentStore = <<>>
  /\ connections = <<>>
  /\ inflight = <<>>
  /\ done = None
  /\ lastContent = NoContent
  /\ resetDue = 0
  /\ tasks = [init |-> [pc |-> "settings", got |-> storage.weavesSettings],
              load |-> [pc |-> "get", data |-> storage.weavesData,
                        lastReset |-> storage.lastResetDate],
              timer |-> IdleTask, ai |-> [pc |-> "availability"]]
  /\ budget = [ingest |-> 0, commands |-> 0, restarts |-> 0,
               early |-> FALSE, overlap |-> FALSE, model |-> "available"]

NextCleanup ==
  \/ Tick
  \/ InitSettings
  \/ InitLoadPinned
  \/ LoadResume
  \/ InitializeAI
  \/ SessionCreated
  \/ ResetTimer
  \/ \E t \in {"init", "timer"} : CheckReset(t)
  \/ \E t \in {"init", "load", "timer"} : ResetCleanup(t)

SpecCleanup == InitCleanup /\ [][NextCleanup]_vars

\* The worker starts on a registry saved earlier the same day, of about the
\* sizes at which GET_CONNECTIONS truncates, and the popup asks for it.
StoredItem(k, shift) ==
  LET ts == (k + shift) % 2
      id == ToString(k) \o "-" \o ToString(ts)
  IN <<id, [id |-> id, tabId |-> k, title |-> "A", url |-> "a", timestamp |-> ts,
            analysis |-> "analyzed"]>>

StoredConnection(j) ==
  [from |-> ToString(j) \o "-0", to |-> "0-0", timestamp |-> j % 2,
   strength |-> MinStrength + 10 * (j % 4), reason |-> DeepReason,
   fromTitle |-> "A", toTitle |-> "A", fromUrl |-> "a", toUrl |-> "a"]

StoredRegistries ==
  {[contentStore |-> [k \in 1..n |-> StoredItem(k, shift)],
    connections |-> [j \in 1..m |-> StoredConnection(j)]] :
     n \in (RecentContentLimit - 1)..(RecentContentLimit + 1),
     m \in (ConnectionsLimit - 1)..(ConnectionsLimit + 1),
     shift \in {0, 1}}

InitGet ==
  /\ now = 1
  /\ \E data \in StoredRegistries,
        ledger \in {None, Some(<<PersistedPin(1, 0)>>)} :
       storage = [EmptyStorage EXCEPT
                    !.weavesData = Some(data),
                    !.pinnedConnections = ledger,
                    !.lastResetDate = "D0"]
  /\ settings = DEFAULT_SETTINGS
  /\ pinnedConnections = <<>>
  /\ contentStore = <<>>
  /\ connections = <<>>
  /\ inflight = <<>>
  /\ done = None
  /\ lastContent = NoContent
  /\ resetDue = 0
  /\ tasks = [init |-> [pc |-> "settings", got |-> storage.weavesSettings],
              load |-> [pc |-> "get", data |-> storage.weavesData,
                        lastReset |-> storage.lastResetDate],
              timer |-> IdleTask, ai |-> [pc |-> "availability"]]
  /\ budget = [ingest |-> 0, commands |-> 1, restarts |-> 0,
               early |-> FALSE, overlap |-> FALSE, model |-> "available"]

NextGet ==
  \/ Tick
  \/ InitSettings
  \/ InitLoadPinned
  \/ LoadResume
  \/ InitializeAI
  \/ SessionCreated
  \/ ResetTimer
  \/ \E t \in {"init", "timer"} : CheckReset(t)
  \/ \E t \in {"init", "load", "timer"} : ResetCleanup(t)
  \/ ReceiveGet

SpecGet == InitGet /\ [][NextGet]_vars

\* The worker starts on a same-day content store of about PromptCap items,
\* and pages are ingested; the model's lines name any index of the prompt and
\* one beyond it.
CompareLines == [index : 0..PromptCap, strength : {85}, reason : {DeepReason}]

CompareLineSeqs == UNION {[1..n -> CompareLines] : n \in 0..2}

ComparedStores ==
  {[k \in 1..n |-> StoredItem(k, shift)] :
     n \in (PromptCap - 1)..(PromptCap + 2), shift \in {0, 1}}

InitCompare ==
  /\ now = 1
  /\ \E store \in ComparedStores :
       storage = [EmptyStorage EXCEPT
                    !.weavesData = Some([contentStore |-> store, connections |-> <<>>]),
                    !.lastResetDate = "D0"]
  /\ settings = DEFAULT_SETTINGS
  /\ pinnedConnections = <<>>
  /\ contentStore = <<>>
  /\ connections = <<>>
  /\ inflight = <<>>
  /\ done = None
  /\ lastContent = NoContent
  /\ resetDue = 0
  /\ tasks = [init |-> [pc |-> "settings", got |-> storage.weavesSettings],
              load |-> [pc |-> "get", data |-> storage.weavesData,
                        lastReset |-> storage.lastResetDate],
              timer |-> IdleTask, ai |-> [pc |-> "availability"]]
  /\ budget = [ingest |-> 2, commands |-> 0, restarts |-> 0,
               early |-> FALSE, overlap |-> FALSE, model |-> "available"]

NextCompare ==
  \/ Tick
  \/ InitSettings
  \/ InitLoadPinned
  \/ LoadResume
  \/ InitializeAI
  \/ SessionCreated
  \/ ResetTimer
  \/ \E t \in {"init", "timer"} : CheckReset(t)
  \/ \E t \in {"init", "load", "timer"} : ResetCleanup(t)
  \/ \E page \in Pages : ReceiveContentUpdate(page.tab, page.title, page.url)
  \/ \E i \in 1..Len(inflight), result \in PromptResults : Analyzed(i, result)
  \/ \E i \in 1..Len(inflight), lines \in CompareLineSeqs : Searched(i, lines)
  \/ \E i \in 1..Len(inflight) : SavePinned(i)
  \/ \E i \in 1..Len(inflight) : ContentRespond(i)

SpecCompare == InitCompare /\ [][NextCompare]_vars

\* The worker starts on stored settings that set autoResetEnabled, on or
\* off, and on daily data persisted on an earlier date or today.
ResetSettings == {Some([autoResetEnabled |-> b]) : b \in BOOLEAN}

InitDisabled ==
  /\ now = 1
  /\ \E s \in ResetSettings, last \in {"", "D0"} :
       storage = [EmptyStorage EXCEPT
                    !.weavesSettings = s,
                    !.weavesData = Some([contentStore |-> <<StoredItem(2, 0)>>,
                                         connections |-> <<>>]),
                    !.lastResetDate = last]
  /\ settings = DEFAULT_SETTINGS
  /\ pinnedConnections = <<>>
  /\ contentStore = <<>>
  /\ connections = <<>>
  /\ inflight = <<>>
  /\ done = None
  /\ lastContent = NoContent
  /\ resetDue = 0
  /\ tasks = [init |-> [pc |-> "settings", got |-> storage.weavesSettings],
              load |-> [pc |-> "get", data |-> storage.weavesData,
                        lastReset |-> storage.lastResetDate],
              timer |-> IdleTask, ai |-> [pc |-> "availability"]]
  /\ budget = [ingest |-> 1, commands |-> 0, restarts |-> MaxRestarts,
               early |-> FALSE, overlap |-> FALSE, model |-> "available"]

NextDisabled ==
  \/ Tick
  \/ Restart
  \/ InitSettings
  \/ InitLoadPinned
  \/ LoadResume
  \/ InitializeAI
  \/ SessionCreated
  \/ ResetTimer
  \/ \E t \in {"init", "timer"} : CheckReset(t)
  \/ \E t \in {"init", "load", "timer"} : ResetCleanup(t)
  \/ \E page \in Pages : ReceiveContentUpdate(page.tab, page.title, page.url)
  \/ \E i \in 1..Len(inflight), result \in PromptResults : Analyzed(i, result)
  \/ \E i \in 1..Len(inflight), lines \in LineSeqs : Searched(i, lines)
  \/ \E i \in 1..Len(inflight) : SavePinned(i)
  \/ \E i \in 1..Len(inflight) : ContentRespond(i)

SpecDisabled == InitDisabled /\ [][NextDisabled]_vars

\* The content script of one tab and the ingestion of what it sends.
InitExtract ==
  /\ now = 1
  /\ storage = EmptyStorage
  /\ settings = DEFAULT_SETTINGS
  /\ pinnedConnections = <<>>
  /\ contentStore = <<>>
  /\ connections = <<>>
  /\ inflight = <<>>
  /\ done = None
  /\ lastContent = NoContent
  /\ resetDue = 0
  /\ tasks = [init |-> [pc |-> "settings", got |-> None],
              load |-> [pc |-> "get", data |-> None, lastReset |-> ""],
              timer |-> IdleTask, ai |-> [pc |-> "availability"]]
  /\ budget = [ingest |-> MaxIngest, commands |-> 0, restarts |-> 0,
               early |-> FALSE, overlap |-> FALSE, model |-> "available"]

NextExtract ==
  \/ Tick
  \/ InitSettings
  \/ InitLoadPinned
  \/ LoadResume
  \/ InitializeAI
  \/ SessionCreated
  \/ ResetTimer
  \/ \E t \in {"init", "timer"} : CheckReset(t)
  \/ \E t \in {"init", "load", "timer"} : ResetCleanup(t)
  \/ \E page \in Pages, extracted \in Contents : ExtractAndSend(page, extracted)
  \/ \E i \in 1..Len(inflight), result \in PromptResults : Analyzed(i, result)
  \/ \E i \in 1..Len(inflight), lines \in LineSeqs : Searched(i, lines)
  \/ \E i \in 1..Len(inflight) : ContentRespond(i)
  \/ \E i \in 1..Len(inflight) : SavePinned(i)

SpecExtract == InitExtract /\ [][NextExtract]_vars
\* ------------------------------------------------------------- claims
ResetTasks == {"init", "load", "timer"}

PinnedIds(out) == {out[j].id : j \in {n \in 1..Len(out) : out[n].pinned}}

UnpinnedIds(out) == {out[j].id : j \in {n \in 1..Len(out) : ~out[n].pinned}}

\* The ledger keys cleanupPinnedConnections leaves in place.
KeptByCleanup == MapKeys(cleanupPinnedConnections(pinnedConnections))

IsClear(i) == inflight[i].type = "CLEAR_DATA"

\* C1: CLEAR_DATA and a daily reset keep every ledger entry that cleanup does
\* not evict, in the ledger and in allConnections, and once either has
\* completed allConnections holds no unpinned connection that was in the
\* connection list when the operation began.
C1_PinnedSurviveUnpinnedDoNot ==
  [][/\ \A t \in ResetTasks :
          ResetCleanup(t) =>
            /\ KeptByCleanup \subseteq MapKeys(pinnedConnections')
            /\ KeptByCleanup \subseteq PinnedIds(getAllConnections')
            /\ UnpinnedIds(getAllConnections')
                 \cap ConnectionIds(tasks[t].before.connections) = {}
     /\ ReceiveClear => pinnedConnections' = pinnedConnections
     /\ \A i \in 1..Len(inflight) :
          /\ IsClear(i) /\ SavePinned(i) => pinnedConnections' = pinnedConnections
          /\ ClearRespond(i) =>
               /\ pinnedConnections' = pinnedConnections
               /\ MapKeys(pinnedConnections) \subseteq PinnedIds(getAllConnections')
               /\ UnpinnedIds(getAllConnections')
                    \cap ConnectionIds(inflight[i].before.connections) = {}
    ]_vars

PersistedDailyEmpty(stor) ==
  \/ stor.weavesData = None
  \/ stor.weavesData[1].contentStore = <<>> /\ stor.weavesData[1].connections = <<>>

\* C2: when a daily reset has run (the stored date differed from today), the
\* content store and the connection list are empty, in memory and in the
\* persisted daily data, lastResetDate is the reset's date (or today's, when a
\* later reset has run meanwhile), and the ledger's cleanup has run.
C2_ResetClearsRegistry ==
  [][\A t \in ResetTasks :
       ResetCleanup(t) =>
         /\ contentStore' = <<>>
         /\ connections' = <<>>
         /\ PersistedDailyEmpty(storage')
         /\ storage'.lastResetDate \in {tasks[t].dateString, getCurrentDateString'}
         /\ pinnedConnections' = cleanupPinnedConnections(pinnedConnections)
    ]_vars

\* C3: once a reset for today's date is recorded, a further reset check or
\* performDailyReset for the same date changes nothing: the persisted daily
\* data (with what was ingested since), lastResetDate, the content store and
\* the connection list stay as they are.
C3_ResetIdempotent ==
  [][/\ storage.lastResetDate = getCurrentDateString
     /\ \E t \in {"init", "timer"} : CheckReset(t)
     => /\ storage' = storage
        /\ contentStore' = contentStore
        /\ connections' = connections
    ]_vars
Commands == {"PIN_CONNECTION", "UNPIN_CONNECTION", "DELETE_CONNECTION"}

\* The invocation the last message started.
Newest == IF done /= None THEN done[1] ELSE inflight[Len(inflight)]

AtCapacity == Len(pinnedConnections) >= settings.maxPinnedConnections

\* C4: a pin attempted while the ledger holds at least maxPinnedConnections
\* entries fails and leaves the ledger as it is, so the ledger never holds
\* more than maxPinnedConnections entries.
C4_PinCapacity ==
  /\ [](Len(pinnedConnections) <= settings.maxPinnedConnections)
  /\ [][/\ \A id \in SendableIds :
            ReceivePin(id) /\ AtCapacity =>
              /\ pinnedConnections' = pinnedConnections
              /\ Newest'.resp /= <<>>
              /\ ~Newest'.resp[1].success
         /\ \A i \in 1..Len(inflight) :
            Pin1(i) /\ AtCapacity => pinnedConnections' = pinnedConnections
        ]_vars

\* A pin of a connection of the list that is not in the ledger was refused
\* with the ledger full.
C4_Witness ==
  /\ done /= None
  /\ done[1].type = "PIN_CONNECTION"
  /\ ~done[1].resp[1].success
  /\ done[1].connectionId \in ConnectionIds(connections)
  /\ done[1].connectionId \notin MapKeys(pinnedConnections)
  /\ Len(pinnedConnections) = settings.maxPinnedConnections

DistinctIds ==
  \A i, j \in 1..Len(connections) :
    i /= j => generateConnectionId(connections[i]) /= generateConnectionId(connections[j])

\* C5: when a PIN_CONNECTION, UNPIN_CONNECTION or DELETE_CONNECTION has
\* returned, every connection of the list (taken with distinct ids) is flagged
\* pinned exactly when the ledger holds its id.
C5_FlagAgreesWithLedger ==
  (done /= None /\ done[1].type \in Commands /\ DistinctIds) =>
    \A i \in 1..Len(connections) :
      IsFlagged(connections[i])
        <=> MapHas(pinnedConnections, generateConnectionId(connections[i]))

SameConnection(a, b) ==
  /\ a.from = b.from
  /\ a.to = b.to
  /\ a.timestamp = b.timestamp
  /\ a.strength = b.strength

\* C6: allConnections holds every ledger connection as pinned, every
\* connection of the list whose id the ledger does not hold as unpinned,
\* nothing else, and no ledger id as an unpinned entry.
C6_AllConnectionsMembership ==
  LET out == getAllConnections
      ledgerIds == MapKeys(pinnedConnections)
      regular == {i \in 1..Len(connections) :
                    generateConnectionId(connections[i]) \notin ledgerIds}
  IN /\ \A i \in 1..Len(pinnedConnections) :
          \E j \in 1..Len(out) :
            /\ out[j].pinned
            /\ out[j].id = pinnedConnections[i][1]
            /\ SameConnection(out[j], pinnedConnections[i][2])
     /\ \A i \in regular :
          \E j \in 1..Len(out) :
            /\ ~out[j].pinned
            /\ out[j].id = generateConnectionId(connections[i])
            /\ SameConnection(out[j], connections[i])
     /\ \A j \in 1..Len(out) :
          IF out[j].pinned
            THEN out[j].id \in ledgerIds
            ELSE \E i \in regular : SameConnection(out[j], connections[i])
     /\ Len(out) = Len(pinnedConnections) + Cardinality(regular)
     /\ UnpinnedIds(out) \cap ledgerIds = {}

\* The ledger holds a connection that is still in the list, beside an
\* unpinned one.
C6_Witness ==
  /\ \E i \in 1..Len(connections) :
       generateConnectionId(connections[i]) \in MapKeys(pinnedConnections)
  /\ \E i \in 1..Len(connections) :
       generateConnectionId(connections[i]) \notin MapKeys(pinnedConnections)

Tied(a, b) ==
  a.pinned = b.pinned /\ a.strength = b.strength /\ a.timestamp = b.timestamp

TiedWith(s, a) == SelectSeq(s, LAMBDA x : Tied(x, a))

\* C7: allConnections is ordered pinned first, then strength descending, then
\* timestamp descending, and entries tied on all three keep their merge order.
C7_RankedOrder ==
  LET out == getAllConnections
  IN /\ \A i \in 1..(Len(out) - 1) :
          /\ out[i].pinned \/ ~out[i + 1].pinned
          /\ out[i].pinned = out[i + 1].pinned => out[i].strength >= out[i + 1].strength
          /\ (out[i].pinned = out[i + 1].pinned /\ out[i].strength = out[i + 1].strength)
               => out[i].timestamp >= out[i + 1].timestamp
     /\ Len(out) = Len(mergedConnections)
     /\ \A i \in 1..Len(mergedConnections) :
          TiedWith(out, mergedConnections[i])
            = TiedWith(mergedConnections, mergedConnections[i])

\* Two connections of equal strength and timestamp, the later of the list
\* pinned: it ranks first.
C7_Witness ==
  LET out == getAllConnections
  IN /\ Len(out) = 2
     /\ Len(connections) = 2
     /\ out[1].pinned /\ ~out[2].pinned
     /\ out[1].strength = out[2].strength
     /\ out[1].timestamp = out[2].timestamp
     /\ out[1].id = generateConnectionId(connections[2])
     /\ out[2].id = generateConnectionId(connections[1])

IdFields(c) == <<c.from, c.to, c.timestamp>>

IdSeq(conns) == [i \in 1..Len(conns) |-> IdFields(conns[i])]

\* C8: the composite id is from-to-timestamp, and no step changes the from,
\* to or timestamp of a connection of the list or of the ledger: every
\* ledger entry is kept under the id of its own fields, equal to those of the
\* listed connection with that id.
C8_IdStable ==
  /\ [](\A i \in 1..Len(pinnedConnections) :
          /\ pinnedConnections[i][1] = generateConnectionId(pinnedConnections[i][2])
          /\ \A j \in 1..Len(connections) :
               generateConnectionId(connections[j]) = pinnedConnections[i][1]
                 => IdFields(connections[j]) = IdFields(pinnedConnections[i][2]))
  /\ [][/\ \A k \in MapKeys(pinnedConnections) \cap MapKeys(pinnedConnections') :
            IdFields(MapGet(pinnedConnections', k)) = IdFields(MapGet(pinnedConnections, k))
         /\ LET old == IdSeq(connections)
                new == IdSeq(connections')
            IN \/ new = old
               \/ new = <<>>
               \/ \E id \in ConnectionIds(connections) :
                    new = IdSeq(RemoveConnection(connections, id))
               \/ /\ Len(new) > Len(old)
                  /\ SubSeq(new, 1, Len(old)) = old
                  /\ \A p \in (Len(old) + 1)..Len(new) : new[p][3] = now
               \/ LoadResume
        ]_vars

\* A connection pinned after the moment it was recorded, still in the list.
C8_Witness ==
  \E i \in 1..Len(pinnedConnections) :
    /\ pinnedConnections[i][2].pinnedAt > pinnedConnections[i][2].timestamp
    /\ pinnedConnections[i][1] \in ConnectionIds(connections)

IsUnknownCommand(h) ==
  /\ h.type \in Commands
  /\ h.connectionId \notin ConnectionIds(h.before.connections)
  /\ h.connectionId \notin MapKeys(h.before.pinnedConnections)

\* C9: a PIN_CONNECTION, UNPIN_CONNECTION or DELETE_CONNECTION whose id matches
\* no connection of the list and no ledger entry is answered success:false
\* (the first response is the one the caller gets) and leaves the list and
\* the ledger as they were.
C9_UnknownIdFails ==
  (done /= None /\ IsUnknownCommand(done[1])) =>
    /\ ~done[1].resp[1].success
    /\ connections = done[1].before.connections
    /\ pinnedConnections = done[1].before.pinnedConnections

Progressed(i) == i > Len(inflight') \/ inflight'[i] /= inflight[i]

\* C10: a message gets exactly one response, and a PIN_CONNECTION,
\* UNPIN_CONNECTION or DELETE_CONNECTION changes neither the connection list
\* nor the ledger once its first response is sent.
C10_OneResponse ==
  /\ [](done /= None => Len(done[1].resp) = 1)
  /\ [][\A i \in 1..Len(inflight) :
          (inflight[i].type \in Commands /\ inflight[i].resp /= <<>> /\ Progressed(i))
            => connections' = connections /\ pinnedConnections' = pinnedConnections
        ]_vars

\* The invocation that returned in the last step, when it handled CONTENT_UPDATE
\* and answered success.
IngestionDone ==
  /\ done /= None
  /\ done[1].type = "CONTENT_UPDATE"
  /\ done[1].resp /= <<>>
  /\ done[1].resp[1].success

\* The connections the list has gained since the invocation h arrived.
AppendedSince(h) ==
  SubSeq(connections, Len(h.before.connections) + 1, Len(connections))

\* C15: every connection in the connection list has a strength in [0.7, 1.0],
\* a reason longer than 50 characters and a reason that includes none of
\* "both mention", "both discuss", "both are about"; a response line that
\* breaks one of these is not recorded.
C15_RecordedAreValid ==
  /\ \A j \in 1..Len(connections) :
       /\ connections[j].strength >= 70
       /\ connections[j].strength <= 100
       /\ connections[j].reason.length > 50
       /\ connections[j].reason.includes
            \notin {"both mention", "both discuss", "both are about"}
  /\ IngestionDone =>
       \A j \in 1..Len(done[1].response) :
         (\/ done[1].response[j].strength < 70
          \/ done[1].response[j].strength > 100
          \/ done[1].response[j].reason.length <= 50
          \/ done[1].response[j].reason.includes /= "none")
           => \A k \in 1..Len(AppendedSince(done[1])) :
                \/ AppendedSince(done[1])[k].strength /= done[1].response[j].strength
                \/ AppendedSince(done[1])[k].reason /= done[1].response[j].reason

\* An ingestion has recorded a connection from a response that also held a
\* line of strength 0.9 with a shallow phrase.
C15_Witness ==
  /\ IngestionDone
  /\ AppendedSince(done[1]) /= <<>>
  /\ \E j \in 1..Len(done[1].response) :
       /\ done[1].response[j].strength = 90
       /\ done[1].response[j].reason.includes = "both discuss"

\* C16: one ingestion appends at most 2 connections to the connection list.
C16_AtMostTwoPerIngestion ==
  IngestionDone => Len(AppendedSince(done[1])) <= 2

\* C20: the success response of CONTENT_UPDATE reports as `connections` the
\* number of connections the ingestion appended to the list and as
\* `highQuality` the number of those with strength >= 0.75, so that
\* 0 <= highQuality <= connections.
C20_ResponseCounts ==
  IngestionDone =>
    LET appended == AppendedSince(done[1])
        r == done[1].resp[1]
    IN /\ \A j \in 1..Len(appended) : appended[j].from = done[1].content.id
       /\ r.connections = Len(appended)
       /\ r.highQuality = Cardinality({j \in 1..Len(appended) : appended[j].strength >= 75})
       /\ 0 <= r.highQuality
       /\ r.highQuality <= r.connections

\* An ingestion has answered with two connections, one of them high quality.
C20_Witness ==
  /\ IngestionDone
  /\ Len(AppendedSince(done[1])) = 2
  /\ done[1].resp[1].connections = 2
  /\ done[1].resp[1].highQuality = 1

\* C17: for an ingestion of item B, the connections appended are one per
\* accepted candidate, in candidate order, after the connections the list
\* already held; each has from = B.id, fromTitle = B.title, fromUrl = B.url
\* and the title and url of the target item that is in the content store, or
\* toTitle = "Unknown" when the content store does not hold the target.
C17_RecordedFields ==
  [][\A i \in 1..Len(inflight) :
       (/\ inflight[i].pc = "find"
        /\ Len(inflight') = Len(inflight)
        /\ inflight'[i].pc = "savePinned")
         => LET B == inflight[i].content
                candidates == inflight'[i].found
                appended == SubSeq(connections', Len(connections) + 1, Len(connections'))
            IN /\ SubSeq(connections', 1, Len(connections)) = connections
               /\ Len(appended) = Len(candidates)
               /\ \A j \in 1..Len(appended) :
                    /\ appended[j].from = B.id
                    /\ appended[j].fromTitle = B.title
                    /\ appended[j].fromUrl = B.url
                    /\ appended[j].to = candidates[j].contentId
                    /\ appended[j].strength = candidates[j].strength
                    /\ appended[j].reason = candidates[j].reason
                    /\ IF MapHas(contentStore, appended[j].to)
                         THEN /\ appended[j].toTitle = MapGet(contentStore, appended[j].to).title
                              /\ appended[j].toUrl = MapGet(contentStore, appended[j].to).url
                         ELSE appended[j].toTitle = "Unknown"
    ]_vars

\* The suspended CONTENT_UPDATE invocations whose item has been stored, and
\* those whose candidates have been recorded too.
Stored == {i \in 1..Len(inflight) :
            inflight[i].type = "CONTENT_UPDATE" /\ inflight[i].pc /= "analyze"}

Recorded == {i \in Stored : inflight[i].pc /= "find"}

\* The connections of the list that ingestion h has produced, as candidates.
ProducedBy(h) ==
  LET own == SelectSeq(connections, LAMBDA c : c.from = h.content.id)
  IN [j \in 1..Len(own) |->
        [contentId |-> own[j].to, strength |-> own[j].strength, reason |-> own[j].reason]]

\* C11: when the handling of two ingestions interleaves and no other message
\* has been handled, the content store holds the items of both, and the
\* connection list holds the accepted candidates of each exactly once, with
\* the from id and the fromTitle of the ingestion that produced them.
C11_InterleavedIngestions ==
  budget.commands = MaxCommands =>
    /\ \A i, j \in Stored :
         i /= j =>
           \E p, q \in 1..Len(contentStore) :
             /\ p /= q
             /\ contentStore[p][2] = inflight[i].content
             /\ contentStore[q][2] = inflight[j].content
    /\ \A i \in Recorded :
         /\ ProducedBy(inflight[i]) = inflight[i].found
         /\ \A j \in 1..Len(connections) :
              connections[j].from = inflight[i].content.id
                => connections[j].fromTitle = inflight[i].content.title

InSeq(x, seq) == \E j \in 1..Len(seq) : seq[j] = x

\* C12: when an ingestion has completed, with or without a timer firing
\* while it was suspended, its content item and the connections it appended
\* are in the in-memory registry and in the persisted daily data.
C12_NothingDropped ==
  IngestionDone =>
    LET h == done[1]
        appended == AppendedSince(h)
    IN /\ MapHas(contentStore, h.content.id)
       /\ Len(appended) = Len(h.found)
       /\ storage.weavesData /= None
       /\ MapHas(storage.weavesData[1].contentStore, h.content.id)
       /\ \A j \in 1..Len(appended) :
            InSeq(appended[j], storage.weavesData[1].connections)

\* The persisted dailyData and pinnedConnections are those of the registry in
\* memory.
PersistedDailyIsCurrent ==
  IF storage.weavesData = None THEN contentStore = <<>> /\ connections = <<>>
  ELSE storage.weavesData = dataToStore(contentStore, connections)

PersistedLedgerIsCurrent ==
  IF storage.pinnedConnections = None THEN pinnedConnections = <<>>
  ELSE storage.pinnedConnections = Some(pinnedConnections)

PersistedIsCurrent == PersistedDailyIsCurrent /\ PersistedLedgerIsCurrent

\* C13: a save is one atomic step: a step that writes dailyData or
\* pinnedConnections (other than a reset's write) from a state where storage
\* holds the registry in memory leaves storage holding the registry in memory,
\* so that dailyData and pinnedConnections never come from different snapshots.
C13_AtomicSave ==
  [][(/\ PersistedIsCurrent
      /\ \A t \in ResetTasks : tasks'[t].pc = "cleanup" => tasks[t].pc = "cleanup"
      /\ \/ storage'.weavesData /= storage.weavesData
         \/ storage'.pinnedConnections /= storage.pinnedConnections)
       => PersistedIsCurrent'
    ]_vars

\* C19: with a language model that is absent, not initialized or failing,
\* CONTENT_UPDATE answers success:true and the item is in the content store
\* with an analysis, which is the heuristic fallback's whenever the model did
\* not produce one.
C19_FallbackAnalysis ==
  (done /= None /\ done[1].type = "CONTENT_UPDATE") =>
    /\ Len(done[1].resp) = 1
    /\ done[1].resp[1].success
    /\ MapHas(contentStore, done[1].content.id)
    /\ MapGet(contentStore, done[1].content.id).analysis
         \in {"analyzed", "minimalFallback"}
    /\ ~done[1].prompting
         => MapGet(contentStore, done[1].content.id).analysis = "minimalFallback"

\* The invocation i goes from pc `from` to pc `to` in this step.
Moves(i, from, to) ==
  /\ inflight[i].pc = from
  /\ Len(inflight') = Len(inflight)
  /\ inflight'[i].pc = to

\* C14: a rejected write of a save leaves the content store, the connection
\* list and the ledger as the handler made them; the handler goes on to answer
\* success with the item and its connections in memory; and a write that
\* storage accepts holds the whole registry that is in memory at that moment.
C14_FailedSaveKeepsMemory ==
  [][/\ \A i \in 1..Len(inflight) :
          Moves(i, "savePinned", inflight[i].ret) =>
            /\ contentStore' = contentStore
            /\ connections' = connections
            /\ pinnedConnections' = pinnedConnections
     /\ \A i \in 1..Len(inflight) :
          (Moves(i, "find", "savePinned") /\ storage.failing) =>
            /\ storage' = storage
            /\ MapHas(contentStore', inflight[i].content.id)
            /\ Len(connections') = Len(connections) + Len(inflight'[i].found)
     /\ (done' /= None /\ done'[1].type = "CONTENT_UPDATE") =>
          /\ Len(done'[1].resp) = 1
          /\ done'[1].resp[1].success
          /\ MapHas(contentStore', done'[1].content.id)
          /\ Len(connections') = Len(done'[1].before.connections) + Len(done'[1].found)
     /\ (done' /= None /\ done'[1].type = "CLEAR_DATA") =>
          /\ Len(done'[1].resp) = 1
          /\ done'[1].resp[1].success
          /\ contentStore' = <<>>
          /\ connections' = <<>>
          /\ pinnedConnections' = done'[1].before.pinnedConnections
     /\ (storage'.weavesData /= storage.weavesData /\ storage'.weavesData /= None) =>
          storage'.weavesData = dataToStore(contentStore', connections')
     /\ storage'.pinnedConnections /= storage.pinnedConnections =>
          storage'.pinnedConnections = Some(pinnedConnections')
    ]_vars

\* An ingestion whose save was rejected has answered, its connection is in the
\* connection list, and storage does not hold its item.
C14_Witness ==
  /\ IngestionDone
  /\ ~done[1].wrote
  /\ AppendedSince(done[1]) /= <<>>
  /\ \/ storage.weavesData = None
     \/ ~MapHas(storage.weavesData[1].contentStore, done[1].content.id)

\* Jaccard similarity of the lower-cased word sets of a and b is at least 0.8.
JaccardAtLeastFourFifths(a, b) ==
  LET wa == {toLowerCase(w) : w \in a.words}
      wb == {toLowerCase(w) : w \in b.words}
  IN /\ wa \cup wb /= {}
     /\ 5 * Cardinality(wa \cap wb) >= 4 * Cardinality(wa \cup wb)

\* C18: an extraction whose text has Jaccard similarity >= 0.8 with the last
\* text sent sends nothing: no invocation starts and the content store, the
\* connection list and lastContent stay as they are; an extraction of at
\* least 100 characters with similarity below 0.8 sends CONTENT_UPDATE and
\* its text becomes lastContent.
C18_DuplicateSkipped ==
  [][\A page \in Pages, extracted \in Contents :
       ExtractAndSend(page, extracted) =>
         /\ JaccardAtLeastFourFifths(extracted, lastContent) =>
              /\ inflight' = inflight
              /\ contentStore' = contentStore
              /\ connections' = connections
              /\ lastContent' = lastContent
         /\ (extracted.length >= 100 /\ ~JaccardAtLeastFourFifths(extracted, lastContent)) =>
              /\ lastContent' = extracted
              /\ Len(inflight') = Len(inflight) + 1
              /\ inflight'[Len(inflight')].type = "CONTENT_UPDATE"
              /\ inflight'[Len(inflight')].pc = "analyze"
    ]_vars

\* A text has been sent and ingested, and a later text of similarity exactly
\* 0.8 with it is what the page now shows: lastContent is the first text, the
\* store holds its one item.
C18_Witness ==
  /\ lastContent /= NoContent
  /\ Len(contentStore) = 1
  /\ inflight = <<>>
  /\ \E extracted \in Contents :
       /\ extracted /= lastContent
       /\ extracted.length >= 100
       /\ JaccardAtLeastFourFifths(extracted, lastContent)

\* C24: the id of a new content item is not the id of an item the store
\* holds: the insert of an ingestion adds an item and replaces none.
C24_UniqueContentIds ==
  [][\A i \in 1..Len(inflight) :
       Moves(i, "analyze", "find") =>
         /\ ~MapHas(contentStore, inflight[i].content.id)
         /\ Len(contentStore') = Len(contentStore) + 1
    ]_vars

\* C28: when DELETE_CONNECTION for id X has completed, neither the connection
\* list nor the ledger nor allConnections holds a connection with id X, and
\* the answer the caller gets is success:true exactly when the list or the
\* ledger held X when the message arrived.
C28_DeleteRemoves ==
  (done /= None /\ done[1].type = "DELETE_CONNECTION") =>
    LET X == done[1].connectionId
        existed == \/ X \in ConnectionIds(done[1].before.connections)
                   \/ X \in MapKeys(done[1].before.pinnedConnections)
    IN /\ X \notin ConnectionIds(connections)
       /\ X \notin MapKeys(pinnedConnections)
       /\ \A j \in 1..Len(getAllConnections) : getAllConnections[j].id /= X
       /\ done[1].resp /= <<>>
       /\ done[1].resp[1].success = existed

\* C30: every ledger entry is stored under the composite id recomputed from
\* its value, from-to-timestamp, so every id getPinnedConnections shows is a
\* key of the ledger.
C30_LedgerKeyIsCompositeId ==
  /\ \A j \in 1..Len(pinnedConnections) :
       LET key == pinnedConnections[j][1]
           value == pinnedConnections[j][2]
       IN key = value.from \o "-" \o value.to \o "-" \o ToString(value.timestamp)
  /\ \A j \in 1..Len(getPinnedConnections) :
       MapHas(pinnedConnections, getPinnedConnections[j].id)

\* PIN_CONNECTION has completed and the ledger holds the connection.
C30_Witness ==
  /\ done /= None
  /\ done[1].type = "PIN_CONNECTION"
  /\ MapHas(pinnedConnections, done[1].connectionId)

\* C21: the purge sweep with cutoff T = now - 7 days removes the content
\* items and the connections whose timestamp is older than T and keeps those
\* whose timestamp is not older than T, by the same rule for both, and leaves
\* the ledger as it is.
C21_PurgeBoundary ==
  [][Purge =>
       LET T == now - 7 * DayLen
       IN /\ \A j \in 1..Len(contentStore) :
               InSeq(contentStore[j], contentStore') <=> ~(contentStore[j][2].timestamp < T)
          /\ \A j \in 1..Len(connections) :
               InSeq(connections[j], connections') <=> ~(connections[j].timestamp < T)
          /\ pinnedConnections' = pinnedConnections
    ]_vars

\* C29: a pinned connection stays addressable by its composite id whether or
\* not its source connection is still in the daily list: the pinned listing
\* and the merged listing both return it under the ledger key with pinned
\* set, and a finished UNPIN_CONNECTION or DELETE_CONNECTION of an id leaves
\* no ledger entry under that id.
C29_PinnedStaysAddressable ==
  /\ \A j \in 1..Len(pinnedConnections) :
       LET key == pinnedConnections[j][1]
       IN /\ \E k \in 1..Len(getPinnedConnections) :
               getPinnedConnections[k].id = key /\ getPinnedConnections[k].pinned
          /\ \E k \in 1..Len(getAllConnections) :
               getAllConnections[k].id = key /\ getAllConnections[k].pinned
  /\ (done /= None /\ done[1].type \in {"UNPIN_CONNECTION", "DELETE_CONNECTION"})
       => ~MapHas(pinnedConnections, done[1].connectionId)

\* An unpin or delete has finished for an id that was pinned and whose
\* source connection had already left the daily list.
C29_Witness ==
  /\ done /= None
  /\ done[1].type \in {"UNPIN_CONNECTION", "DELETE_CONNECTION"}
  /\ MapHas(done[1].before.pinnedConnections, done[1].connectionId)
  /\ done[1].connectionId \notin ConnectionIds(done[1].before.connections)
  /\ ~MapHas(pinnedConnections, done[1].connectionId)

\* A pinned connection is listed although the daily list no longer has it.
C29_ListedWitness ==
  \E j \in 1..Len(pinnedConnections) :
     /\ pinnedConnections[j][1] \notin ConnectionIds(connections)
     /\ HasId(getAllConnections, pinnedConnections[j][1])

\* C22: when a daily reset completes (performDailyReset has written and its
\* ledger cleanup has run), the ledger holds no entry whose pinnedAt is
\* earlier than now minus the configured retention days.
C22_RetentionCleanup ==
  [][\A t \in {"init", "load", "timer"} :
       (tasks[t].pc = "cleanup" /\ tasks[t].wrote /\ tasks'[t].pc /= "cleanup") =>
         \A j \in 1..Len(pinnedConnections') :
            ~(pinnedConnections'[j][2].pinnedAt < now - settings.dataRetentionDays * DayLen)
    ]_vars

\* C23: a ledger cleanup that runs with the ledger above max capacity evicts
\* exactly size - max entries, all oldest-pinned: afterwards the ledger size
\* equals max, the retained entries are entries of the old ledger, and every
\* evicted entry has pinnedAt at most that of every retained entry; with the
\* ledger within capacity the cleanup removes nothing.
C23_CapacityEviction ==
  [][\A t \in {"init", "load", "timer"} :
       (tasks[t].pc = "cleanup" /\ tasks[t].wrote /\ tasks'[t].pc /= "cleanup") =>
         LET max == settings.maxPinnedConnections
             evicted == {j \in 1..Len(pinnedConnections) :
                           ~InSeq(pinnedConnections[j], pinnedConnections')}
         IN IF Len(pinnedConnections) > max
              THEN /\ Len(pinnedConnections') = max
                   /\ Cardinality(evicted) = Len(pinnedConnections) - max
                   /\ \A k \in 1..Len(pinnedConnections') :
                        InSeq(pinnedConnections'[k], pinnedConnections)
                   /\ \A j \in evicted : \A k \in 1..Len(pinnedConnections') :
                        pinnedConnections[j][2].pinnedAt
                          <= pinnedConnections'[k][2].pinnedAt
              ELSE pinnedConnections' = pinnedConnections
    ]_vars

\* The persisted ledgers all begin with the pin of "1-1": a loaded ledger
\* that is at capacity and lacks it has been through an eviction.
C23_Witness ==
  /\ tasks.init.pc = "done"
  /\ tasks.timer.pc = "idle"
  /\ pinnedConnections /= <<>>
  /\ Len(pinnedConnections) = settings.maxPinnedConnections
  /\ ~MapHas(pinnedConnections, PersistedPin(1, 0)[1])

\* C25: the answer to GET_CONNECTIONS holds at most 25 content items, which
\* are items of the content store in descending timestamp order and none
\* older than an item left out, and at most 50 connections, which are the
\* first 50 entries of the ranked allConnections sequence; answering changes
\* neither the registry nor the ledger.
C25_GetConnectionsLimits ==
  [][(done' /= None /\ done'[1].type = "GET_CONNECTIONS") =>
       LET r == done'[1].resp[1]
           items == MapValues(contentStore)
           all == getAllConnections
       IN /\ UNCHANGED <<contentStore, connections, pinnedConnections, storage>>
          /\ Len(done'[1].resp) = 1
          /\ Len(r.content) = Min(25, Len(items))
          /\ \A a \in 1..Len(r.content) : InSeq(r.content[a], items)
          /\ \A a, b \in 1..Len(r.content) :
               a < b => /\ r.content[a].timestamp >= r.content[b].timestamp
                        /\ r.content[a] /= r.content[b]
          /\ \A k \in 1..Len(items) :
               ~InSeq(items[k], r.content) =>
                 \A a \in 1..Len(r.content) : items[k].timestamp <= r.content[a].timestamp
          /\ Len(r.connections) = Min(50, Len(all))
          /\ r.connections = SubSeq(all, 1, Len(r.connections))
    ]_vars

\* An answer that left out an item and a connection.
C25_Witness ==
  /\ done /= None
  /\ done[1].type = "GET_CONNECTIONS"
  /\ Len(contentStore) > 25
  /\ Len(done[1].resp[1].content) = 25
  /\ Len(getAllConnections) > 50
  /\ Len(done[1].resp[1].connections) = 50

\* The item with id a comes before the item with id b in the order "newest
\* first, ties in insertion order" of the store.
NewerIn(store, a, b) ==
  LET pa == CHOOSE k \in 1..Len(store) : store[k][1] = a
      pb == CHOOSE k \in 1..Len(store) : store[k][1] = b
  IN \/ store[pa][2].timestamp > store[pb][2].timestamp
     \/ store[pa][2].timestamp = store[pb][2].timestamp /\ pa < pb

\* C27: when the search of an ingestion starts, its candidates are the (up to
\* 4) most recent items of the store other than the new item, newest first
\* with ties in insertion order; and every connection the ingestion records
\* has a to id among those candidates and different from its from id.
C27_ComparisonSet ==
  [][\A i \in 1..Len(inflight) :
       /\ Moves(i, "analyze", "find") =>
            LET new == inflight'[i].content.id
                cand == inflight'[i].existingAnalyses
                others == MapKeys(contentStore') \ {new}
                listed == {cand[a] : a \in 1..Len(cand)}
            IN /\ Len(cand) = Min(4, Cardinality(others))
               /\ listed \subseteq others
               /\ \A a, b \in 1..Len(cand) :
                    a < b => NewerIn(contentStore', cand[a], cand[b])
               /\ \A o \in others \ listed : \A a \in 1..Len(cand) :
                    NewerIn(contentStore', cand[a], o)
       /\ Moves(i, "find", "savePinned") =>
            \A j \in (Len(connections) + 1)..Len(connections') :
               /\ connections'[j].from = inflight[i].content.id
               /\ connections'[j].to /= connections'[j].from
               /\ \E a \in 1..Len(inflight[i].existingAnalyses) :
                    connections'[j].to = inflight[i].existingAnalyses[a]
    ]_vars

\* An ingestion that found more than 4 other items has recorded a connection,
\* and a line of its response named the index past the candidates.
C27_Witness ==
  /\ IngestionDone
  /\ Len(contentStore) > 5
  /\ Len(done[1].existingAnalyses) = 4
  /\ AppendedSince(done[1]) /= <<>>
  /\ \E j \in 1..Len(done[1].response) : done[1].response[j].index = 4

\* C26: an ingestion goes through its steps in the order received, analyzed
\* and inserted, searched and recorded, saved, answered: every item in the
\* content store has its analysis; connections are appended only by the
\* ingestion whose search has come back, which is after the step that
\* inserted its item, and from that item; the registry is written in the same step; and a
\* CONTENT_UPDATE is answered only by an invocation that has been through
\* the save.
C26_IngestionOrder ==
  [][/\ \A j \in 1..Len(contentStore') :
          /\ "analysis" \in DOMAIN contentStore'[j][2]
          /\ contentStore'[j][2].analysis \in {"analyzed", "minimalFallback", "unanalyzed"}
     /\ \A i \in 1..Len(inflight) :
          (inflight[i].type = "CONTENT_UPDATE" /\ Len(inflight') = Len(inflight)
             /\ inflight'[i].pc /= inflight[i].pc) =>
            <<inflight[i].pc, inflight'[i].pc>> \in
              {<<"analyze", "find">>, <<"find", "savePinned">>,
               <<"savePinned", "contentRespond">>}
     /\ \A i \in 1..Len(inflight) :
          Moves(i, "analyze", "find") =>
            /\ MapHas(contentStore', inflight'[i].content.id)
            /\ connections' = connections
     /\ Len(connections') > Len(connections) =>
          \E i \in 1..Len(inflight) :
             /\ Moves(i, "find", "savePinned")
             /\ \A j \in (Len(connections) + 1)..Len(connections') :
                  connections'[j].from = inflight[i].content.id
             /\ storage'.weavesData =
                  Some([contentStore |-> contentStore', connections |-> connections'])
     /\ (done' /= None /\ done'[1].type = "CONTENT_UPDATE") =>
          \E i \in 1..Len(inflight) :
             /\ inflight[i].pc = "contentRespond"
             /\ inflight[i].wrote
             /\ Len(done'[1].resp) = 1
             /\ [done'[1] EXCEPT !.resp = <<>>] = inflight[i]
    ]_vars

\* A GET_CONNECTIONS answered while an ingestion waits for its search shows
\* that ingestion's item.
C26_Witness ==
  /\ done /= None
  /\ done[1].type = "GET_CONNECTIONS"
  /\ \E i \in 1..Len(inflight) :
       /\ inflight[i].type = "CONTENT_UPDATE"
       /\ inflight[i].pc = "find"
       /\ \E a \in 1..Len(done[1].resp[1].content) :
            /\ done[1].resp[1].content[a].id = inflight[i].content.id
            /\ "analysis" \in DOMAIN done[1].resp[1].content[a]

\* C37: an extraction whose text is shorter than 100 characters is rejected
\* before anything else: no CONTENT_UPDATE is sent (no invocation starts and
\* no ingestion is spent), lastContent stays as it is, and no content item or
\* connection is created.
C37_ShortContentRejected ==
  [][\A page \in Pages, extracted \in Contents :
       (extracted.length < 100 /\ ExtractAndSend(page, extracted)) =>
         /\ inflight' = inflight
         /\ budget' = budget
         /\ lastContent' = lastContent
         /\ contentStore' = contentStore
         /\ connections' = connections
         /\ storage' = storage
    ]_vars

\* The page shows a text shorter than 100 characters that is unlike the last
\* text sent, after a longer text has been sent and ingested, and ingestions
\* are still possible.
C37_Witness ==
  /\ lastContent /= NoContent
  /\ contentStore /= <<>>
  /\ inflight = <<>>
  /\ budget.ingest > 0
  /\ \E extracted \in Contents :
       /\ extracted.length < 100
       /\ contentSimilarity(extracted, lastContent) < SimilarityThreshold

\* C36: a PIN_CONNECTION for an id that is already in the ledger leaves the
\* set of ledger keys and the ledger size as they were, and the caller (who
\* gets the first response) is told success:true, also with the ledger at
\* max capacity.
C36_PinAgainIdempotent ==
  (/\ done /= None
   /\ done[1].type = "PIN_CONNECTION"
   /\ MapHas(done[1].before.pinnedConnections, done[1].connectionId)) =>
    /\ MapKeys(pinnedConnections) = MapKeys(done[1].before.pinnedConnections)
    /\ Len(pinnedConnections) = Len(done[1].before.pinnedConnections)
    /\ done[1].resp /= <<>>
    /\ done[1].resp[1].success

C32_PersistenceConverges ==
  Quiescent => PersistedIsCurrent

\* C33: what messages handled during the startup load have put in memory is
\* still there when the load completes: the step that completes
\* loadStoredData keeps every content item and connection, and the step that
\* completes loadPinnedConnections keeps every ledger entry.
C33_EarlyMessagesKept ==
  [][/\ (tasks.load.pc /= "done" /\ tasks'.load.pc = "done") =>
          /\ \A j \in 1..Len(contentStore) : MapHas(contentStore', contentStore[j][1])
          /\ \A j \in 1..Len(connections) : InSeq(connections[j], connections')
     /\ (tasks.init.pc = "loadPinned" /\ tasks'.init.pc = "done") =>
          \A j \in 1..Len(pinnedConnections) :
             MapHas(pinnedConnections', pinnedConnections[j][1])
    ]_vars

\* C34: with automatic reset disabled in the persisted settings no daily
\* reset is performed, at startup or later, in whatever order the settings
\* load and the data load complete: no task calls performDailyReset, and no
\* step replaces persisted daily data by nothing or writes lastResetDate.
C34_NoResetWhenDisabled ==
  [][(storage.weavesSettings /= None /\ ~storage.weavesSettings[1].autoResetEnabled) =>
       /\ \A t \in ResetTasks : tasks'[t].pc /= "cleanup"
       /\ storage.weavesData /= None => storage'.weavesData /= None
       /\ storage'.lastResetDate = storage.lastResetDate
    ]_vars

\* C35: no two connections of the daily connection list have the same
\* composite id, also when one ingestion accepts two candidates for the same
\* target item.
C35_UniqueConnectionIds ==
  \A a, b \in 1..Len(connections) :
     a /= b => generateConnectionId(connections[a]) /= generateConnectionId(connections[b])
====
